---- MODULE Spec2Model ----
(***************************************************************************)
(* A model of the NSGA-II style optimizer of SpindleSimulation             *)
(* (SpindleSimulation.cpp, optimizeSpindleArrangement and its helpers).    *)
(*                                                                         *)
(* Numbers.  The program computes in double; the model computes in         *)
(* fixed point, one integer unit per quantity:                             *)
(*   powerRating          0.1 kW          wheelDiameter      1 mm          *)
(*   maxSpeed             1 rpm           bearingPreload     1 N           *)
(*   alignmentTolerance   0.00001 mm      duration           0.01 s        *)
(*   loadFactor           0.1             load               1 N           *)
(*   vibration            0.001 mm/s      temperature rise   0.001 degC    *)
(*   bearing life         10 h            crowding distance  0.001         *)
(* A draw dist(rng) of uniform_real_distribution(0,1) is an integer u in   *)
(* 0 .. RngResolution-1 standing for u / RngResolution.                    *)
(***************************************************************************)
EXTENDS Integers, Sequences, FiniteSets, TLC

VARIABLES
    rng,          \* SpindleSimulation::rng, the generator's state
    pc,           \* position inside optimizeSpindleArrangement
    cfg,          \* the arguments of the call in progress
    population,   \* std::vector<Individual> population
    offspring,    \* std::vector<Individual> offspring
    combined,     \* std::vector<Individual> combined
    fronts,       \* std::vector<std::vector<size_t>> fronts (1-based here)
    gen,          \* the loop counter gen
    idx,          \* the loop counter i of the initialisation loop (1-based)
    result,       \* what the call returned
    evalCount,    \* history: calls of evaluateObjectives in this call
    rngAtCall,    \* history: rng when the call was entered
    genLog,       \* history: offspring made in each finished generation
    popLog,       \* history: the population after each ranking/truncation
    calls,        \* history: calls of optimizeSpindleArrangement so far
    prevRun,      \* history: the previous finished call on this instance
    seed,         \* history: the value the constructor seeded rng with
    domIn,        \* inputs of a stand-alone dominates() evaluation
    domOut,       \* its results
    historicalData, \* static std::vector<DataPoint> SpindleSimulation::historicalData
    tableAtCall,  \* history: historicalData when the call was entered
    lastOp        \* history: the public method called last, with its arguments

vars == <<rng, pc, cfg, population, offspring, combined, fronts, gen, idx, result,
          evalCount, rngAtCall, genLog, popLog, calls, prevRun, seed, domIn, domOut,
          historicalData, tableAtCall, lastOp>>

(***************************************************************************)
(* Bounds of the model.                                                    *)
(***************************************************************************)
MaxSeed == 15             \* seeds 0 .. MaxSeed of the generator
MaxGenerations == 2       \* largest generations argument tried
MaxPopulationSize == 11   \* largest populationSize argument tried
MaxSortLen == 4           \* largest stand-alone population that is sorted
MaxObjValue == 2          \* objective values 0 .. MaxObjValue given to a stand-alone dominates

(***************************************************************************)
(* The random source.  std::mt19937 is modelled by a 16-bit linear         *)
(* congruential generator: one deterministic stream per seed; a draw       *)
(* advances the state and yields its top bits.                             *)
(***************************************************************************)
RngModulus == 65536
RngMultiplier == 25173
RngIncrement == 13849
RngResolution == 1024

NextRng(r) == (RngMultiplier * r + RngIncrement) % RngModulus

\* the value of dist(rng) drawn from state r (the state becomes NextRng(r))
Uniform(r) == NextRng(r) \div (RngModulus \div RngResolution)

\* the states the generator goes through in n >= 1 draws from state r: the
\* first half, then the second half from where the first one ended (by
\* halves, so that the evaluation stays shallow for the long load profiles)
RECURSIVE States(_, _)
States(r, n) ==
    IF n = 1 THEN <<NextRng(r)>>
    ELSE LET first == States(r, n \div 2)
         IN  first \o States(first[Len(first)], n - n \div 2)

\* the state after k draws from state r
RngAfter(r, k) == IF k = 0 THEN r ELSE States(r, k)[k]

\* the value of the k-th draw made from state r, k >= 1
UniformAt(r, k) == Uniform(RngAfter(r, k - 1))

(***************************************************************************)
(* Parameter space.                                                        *)
(***************************************************************************)
Bounds ==
    [powerRating        |-> [min |-> 5,    max |-> 500],
     maxSpeed           |-> [min |-> 1000, max |-> 30000],
     wheelDiameter      |-> [min |-> 50,   max |-> 1000],
     bearingPreload     |-> [min |-> 100,  max |-> 2000],
     alignmentTolerance |-> [min |-> 10,   max |-> 1000]]

ContinuousFields ==
    <<"powerRating", "maxSpeed", "wheelDiameter", "bearingPreload", "alignmentTolerance">>

spindleTypes == <<"Belt-Driven", "Direct-Drive", "Motorized">>
bearingTypes == <<"Angular Contact", "Hybrid Ceramic">>
coolingTypes == <<"Liquid", "Air">>
lubricationTypes == <<"Grease", "Oil-Mist", "Oil-Air">>
toolInterfaces == <<"Precision Collet", "Hydraulic Chuck", "HSK">>

Range(s) == {s[i] : i \in 1..Len(s)}

\* SpindleParameters() : every number 0, every string empty
DefaultParameters ==
    [spindleType |-> "", powerRating |-> 0, maxSpeed |-> 0, wheelDiameter |-> 0,
     bearingType |-> "", bearingPreload |-> 0, coolingType |-> "",
     lubricationType |-> "", toolInterface |-> "", alignmentTolerance |-> 0]

\* Individual() : rank(0), crowdingDistance(0.0), no objectives.
\* uid is history only: the order of creation within the call.
NewIndividual(uid) ==
    [params |-> DefaultParameters, objectives |-> <<>>, rank |-> 0,
     crowdingDistance |-> 0, uid |-> uid]

Infinity == 2000000000

Min(a, b) == IF a < b THEN a ELSE b
Max(a, b) == IF a < b THEN b ELSE a
Abs(a) == IF a < 0 THEN 0 - a ELSE a

\* std::max(min, std::min(max, v))
Clamp(v, lo, hi) == Max(lo, Min(hi, v))

\* lo + dist(rng) * (hi - lo), the draw being u
Scale(u, lo, hi) == lo + (u * (hi - lo)) \div RngResolution

\* choices[static_cast<int>(dist(rng) * choices.size())]
Pick(choices, u) == choices[(u * Len(choices)) \div RngResolution + 1]

\* generateRandomParameters: ten draws, in this order
generateRandomParameters(r) ==
    [params |->
        [powerRating        |-> Scale(UniformAt(r, 1), 5, 500),
         maxSpeed           |-> Scale(UniformAt(r, 2), 1000, 30000),
         wheelDiameter      |-> Scale(UniformAt(r, 3), 50, 1000),
         bearingPreload     |-> Scale(UniformAt(r, 4), 100, 2000),
         alignmentTolerance |-> Scale(UniformAt(r, 5), 10, 1000),
         spindleType        |-> Pick(spindleTypes, UniformAt(r, 6)),
         bearingType        |-> Pick(bearingTypes, UniformAt(r, 7)),
         coolingType        |-> Pick(coolingTypes, UniformAt(r, 8)),
         lubricationType    |-> Pick(lubricationTypes, UniformAt(r, 9)),
         toolInterface      |-> Pick(toolInterfaces, UniformAt(r, 10))],
     rng |-> RngAfter(r, 10)]

(***************************************************************************)
(* The objective oracle: the physics formulas evaluateObjectives uses.     *)
(***************************************************************************)
\* std::accumulate(s.begin(), s.end(), 0.0), summed by halves
RECURSIVE SumSeq(_)
SumSeq(s) ==
    IF s = <<>> THEN 0
    ELSE IF Len(s) = 1 THEN s[1]
    ELSE SumSeq(SubSeq(s, 1, Len(s) \div 2)) + SumSeq(SubSeq(s, Len(s) \div 2 + 1, Len(s)))

\* 1000 * sin(2 * pi * time / 2.0) for time = i * 0.1, one period (20 steps)
SinMilli ==
    <<0, 309, 588, 809, 951, 1000, 951, 809, 588, 309,
      0, -309, -588, -809, -951, -1000, -951, -809, -588, -309>>

\* (wheelDiameter / 1000) * (maxSpeed / 1000) * 100
estimateLoad(params) == (params.wheelDiameter * params.maxSpeed) \div 10000

\* steps = static_cast<int>(duration / timeStep), timeStep = 0.1
StepsOf(duration) == IF duration <= 0 THEN 0 ELSE duration \div 10

\* the load pushed at step i (0-based), the step's draw being u
LoadAt(baseLoad, i, u) ==
    LET variation == (3 * SinMilli[(i % 20) + 1]) \div 10
        load == (baseLoad * (1000 + variation)) \div 1000
        spiked == IF u * 10 < RngResolution THEN (load * 3) \div 2 ELSE load
    IN  Max(0, spiked)

\* the values of the first n draws made from state r, in order
Draws(r, n) ==
    IF n = 0 THEN <<>>
    ELSE LET states == States(r, n)
         IN  [k \in 1..n |-> states[k] \div (RngModulus \div RngResolution)]

\* generateDynamicLoadProfile: one draw per step
generateDynamicLoadProfile(params, duration, loadFactor, r) ==
    LET baseLoad == (estimateLoad(params) * loadFactor) \div 10
        steps == StepsOf(duration)
        draws == Draws(r, steps)
    IN  [loadProfile |-> [i \in 1..steps |-> LoadAt(baseLoad, i - 1, draws[i])],
         rng |-> RngAfter(r, steps)]

\* estimateVibration(params): baseVibration * speedFactor * alignmentFactor * toolFactor
estimateVibration(params) ==
    LET baseVibration == IF params.bearingType = "Hybrid Ceramic" THEN 4 ELSE 6
        alignmentFactor == IF params.alignmentTolerance > 200 THEN 12 ELSE 10
        toolFactor == IF params.toolInterface = "HSK" THEN 9 ELSE 10
    IN  (baseVibration * params.maxSpeed * alignmentFactor * toolFactor) \div 10000

\* estimateTemperatureRise(params): baseTemp + speedFactor * 5 + preloadFactor * 2
estimateTemperatureRise(params) ==
    LET baseTemp == IF params.coolingType = "Liquid" THEN 18000 ELSE 22000
    IN  baseTemp + params.maxSpeed \div 2 + params.bearingPreload * 4

\* calculateBearingL10Life: max(1000 h, (C / P)^3 * 1e6 / (60 * maxSpeed) * factor).
\* q10 is 10 * C / P; the cube is taken in stages so that no product
\* leaves 32 bits.
calculateBearingL10Life(params, loadProfile) ==
    LET C == IF params.bearingType = "Hybrid Ceramic" THEN 50 ELSE 40
        avgLoad == SumSeq(loadProfile) \div Len(loadProfile)
        q10 == (C * 10000) \div (avgLoad + params.bearingPreload)
        lub == IF params.lubricationType = "Grease" THEN 800
               ELSE IF params.lubricationType = "Oil-Air" THEN 1200 ELSE 1000
        lifeAdjustmentFactor ==
            IF params.coolingType = "Liquid" THEN (lub * 11) \div 10 ELSE lub
        t == (q10 * q10 * 50) \div (3 * params.maxSpeed)
        ta == (t * lifeAdjustmentFactor) \div 1000
        L10h == IF ta <= 400000 THEN (ta * q10) \div 10 ELSE (ta \div 10) * q10
    IN  Max(100, L10h)

\* calculateWheelWear, in 0.001 mm:
\* wearCoefficient * avgLoad * (maxSpeed / 60) * duration / (wheelThickness * 1000),
\* at most 20% of the wheel diameter (pi * wheelDiameter cancels)
calculateWheelWear(params, loadProfile, duration) ==
    LET avgLoad == SumSeq(loadProfile) \div Len(loadProfile)
        diameterReduction ==
            (((avgLoad * params.maxSpeed) \div 1000) * duration) \div 120000
    IN  Min(diameterReduction, params.wheelDiameter * 200)

\* calculateWearInducedVibration: with the masses and the eccentricity
\* substituted, the amplitude is 3.445e-17 * wheelDiameter[m] * wear[mm]^2 *
\* maxSpeed^2 mm/s, at most 2.0 mm/s
calculateWearInducedVibration(params, wear) ==
    LET k == (wear * (params.maxSpeed \div 1000)) \div 1000
        vibrationAmplitude == (((k * k) \div 1000) * params.wheelDiameter) \div 29000000
    IN  Min(vibrationAmplitude, 2000)

\* a sentinel that claims the longest bearing life (used to test C23)
SentinelOfLongLife == <<1000000000, -2000000000, 1000000000>>

\* {1e10, -1e-10, 1e10}: worse than anything the formulas can yield
SentinelObjectives == <<1000000000, 0, 1000000000>>

\* a handler that logs the failure and assigns nothing (used to test C6)
evaluateWithoutSentinel(ind, duration, loadFactor, r) ==
    LET lp == generateDynamicLoadProfile(ind.params, duration, loadFactor, r)
        loadProfile == lp.loadProfile
        vibration == estimateVibration(ind.params)
        tempRise == estimateTemperatureRise(ind.params)
        bearingLife == calculateBearingL10Life(ind.params, loadProfile)
        wheelWear == calculateWheelWear(ind.params, loadProfile, duration)
        wearVibration == calculateWearInducedVibration(ind.params, wheelWear)
        totalVibration == vibration + wearVibration
    IN  IF loadProfile = <<>>
        THEN [ind |-> ind, rng |-> lp.rng]
        ELSE [ind |-> [ind EXCEPT !.objectives = <<totalVibration, 0 - bearingLife, tempRise>>],
              rng |-> lp.rng]

\* evaluateObjectives: the empty load profile throws, the handler assigns
\* the sentinel; nothing is rethrown
evaluateObjectives(ind, duration, loadFactor, r) ==
    LET lp == generateDynamicLoadProfile(ind.params, duration, loadFactor, r)
        loadProfile == lp.loadProfile
        vibration == estimateVibration(ind.params)
        tempRise == estimateTemperatureRise(ind.params)
        bearingLife == calculateBearingL10Life(ind.params, loadProfile)
        wheelWear == calculateWheelWear(ind.params, loadProfile, duration)
        wearVibration == calculateWearInducedVibration(ind.params, wheelWear)
        totalVibration == vibration + wearVibration
    IN  IF loadProfile = <<>>
        THEN [ind |-> [ind EXCEPT !.objectives = SentinelObjectives], rng |-> lp.rng]
        ELSE [ind |-> [ind EXCEPT !.objectives = <<totalVibration, 0 - bearingLife, tempRise>>],
              rng |-> lp.rng]

(***************************************************************************)
(* Dominance and non-dominated sorting.                                    *)
(***************************************************************************)
\* a dominates that forgets betterInAtLeastOne (used to test C10)
dominatesOrEqual(a, b) ==
    \A i \in 1..Len(a.objectives) : ~(a.objectives[i] > b.objectives[i])

\* dominates(a, b): the loop runs over a.objectives; false as soon as a is
\* worse somewhere, otherwise true iff a is better somewhere
dominates(a, b) ==
    /\ \A i \in 1..Len(a.objectives) : ~(a.objectives[i] > b.objectives[i])
    /\ \E i \in 1..Len(a.objectives) : a.objectives[i] < b.objectives[i]

IndexSeq(n) == [k \in 1..n |-> k]

\* dominatedBy[i] after the pair loop: every j that pop[i] dominates, ascending
dominatedBy(pop, i) ==
    SelectSeq(IndexSeq(Len(pop)), LAMBDA j : j # i /\ dominates(pop[i], pop[j]))

\* dominationCount[i] after the pair loop (the else-if branch)
dominationCount(pop, i) ==
    Cardinality({j \in 1..Len(pop) :
        j # i /\ ~dominates(pop[i], pop[j]) /\ dominates(pop[j], pop[i])})

\* fronts after the pair loop: fronts[0] exists only once somebody has count 0
FirstFront(pop) ==
    LET zero == SelectSeq(IndexSeq(Len(pop)), LAMBDA i : dominationCount(pop, i) = 0)
    IN  IF zero = <<>> THEN <<>> ELSE <<zero>>

RECURSIVE Concat(_)
Concat(ss) == IF ss = <<>> THEN <<>> ELSE Head(ss) \o Concat(Tail(ss))

\* an inner loop that pushes j at every decrement, not only at zero (used to test C3)
RECURSIVE DecrementEager(_, _, _)
DecrementEager(js, count, nextFront) ==
    IF js = <<>> THEN [count |-> count, nextFront |-> nextFront]
    ELSE LET j == Head(js)
             c == count[j] - 1
         IN  DecrementEager(Tail(js), [count EXCEPT ![j] = c], Append(nextFront, j))

\* the inner two loops over one front: js are the decremented indices in order
RECURSIVE Decrement(_, _, _)
Decrement(js, count, nextFront) ==
    IF js = <<>> THEN [count |-> count, nextFront |-> nextFront]
    ELSE LET j == Head(js)
             c == count[j] - 1
         IN  Decrement(Tail(js), [count EXCEPT ![j] = c],
                       IF c = 0 THEN Append(nextFront, j) ELSE nextFront)

\* while (frontIdx < fronts.size() && !fronts[frontIdx].empty())
RECURSIVE BuildFronts(_, _, _, _)
BuildFronts(pop, count, fs, frontIdx) ==
    IF frontIdx > Len(fs) \/ fs[frontIdx] = <<>> THEN fs
    ELSE LET front == fs[frontIdx]
             js == Concat([k \in 1..Len(front) |-> dominatedBy(pop, front[k])])
             d == Decrement(js, count, <<>>)
         IN  BuildFronts(pop, d.count,
                         IF d.nextFront # <<>> THEN Append(fs, d.nextFront) ELSE fs,
                         frontIdx + 1)

\* a sorting that stops after the first front (used to test C2)
ComputeFirstFrontOnly(pop) == FirstFront(pop)

ComputeFronts(pop) ==
    BuildFronts(pop, [i \in 1..Len(pop) |-> dominationCount(pop, i)], FirstFront(pop), 1)

\* rank = 1 for fronts[0], frontIdx + 2 for a member pushed to the next front;
\* an individual that enters no front keeps the rank it had
AssignRanks(pop, fs) ==
    LET ranked == [i \in 1..Len(pop) |->
                    IF \E f \in 1..Len(fs) : i \in Range(fs[f])
                    THEN [pop[i] EXCEPT !.rank = CHOOSE f \in 1..Len(fs) : i \in Range(fs[f])]
                    ELSE pop[i]]
    IN  SubSeq(ranked, 1, Len(pop))

(***************************************************************************)
(* Crowding distance.                                                      *)
(***************************************************************************)
\* std::sort of indices by ascending key; equal keys keep their order, as by
\* the insertion sort that std::sort is for short ranges
RECURSIVE InsertByKey(_, _, _)
InsertByKey(sorted, x, key) ==
    IF sorted = <<>> THEN <<x>>
    ELSE IF key[x] < key[sorted[Len(sorted)]]
         THEN Append(InsertByKey(SubSeq(sorted, 1, Len(sorted) - 1), x, key),
                     sorted[Len(sorted)])
         ELSE Append(sorted, x)

RECURSIVE SortByKey(_, _, _)
SortByKey(done, todo, key) ==
    IF todo = <<>> THEN done
    ELSE SortByKey(InsertByKey(done, Head(todo), key), Tail(todo), key)

\* x + y in double, where infinity absorbs
AddDistance(x, y) == IF x >= Infinity \/ y >= Infinity THEN Infinity ELSE x + y

\* (next - prev) / objRange in units of 0.001, without leaving 32 bits
Ratio(diff, objRange) ==
    IF diff < 2000000 THEN (diff * 1000) \div objRange
    ELSE diff \div Max(1, objRange \div 1000)

SetInfinity(pop, i) == [pop EXCEPT ![i].crowdingDistance = Infinity]

\* for (size_t i = 1; i < sortedFront.size() - 1; ++i) crowdingDistance += ...
RECURSIVE Accumulate(_, _, _, _, _)
Accumulate(pop, sortedFront, objIdx, objRange, i) ==
    IF i > Len(sortedFront) - 1 THEN pop
    ELSE LET me == sortedFront[i]
             diff == pop[sortedFront[i + 1]].objectives[objIdx]
                     - pop[sortedFront[i - 1]].objectives[objIdx]
         IN  Accumulate(
                [pop EXCEPT ![me].crowdingDistance =
                    AddDistance(pop[me].crowdingDistance, Ratio(diff, objRange))],
                sortedFront, objIdx, objRange, i + 1)

\* one pass of the objIdx loop of nonDominatedSorting: sortedFront is sorted in
\* place, so it is carried to the next objective
CrowdObjective(pop, sortedFront, objIdx) ==
    LET key == [i \in 1..Len(pop) |-> pop[i].objectives[objIdx]]
        sorted == SortByKey(<<>>, sortedFront, key)
        ends == SetInfinity(SetInfinity(pop, sorted[1]), sorted[Len(sorted)])
        objRange == key[sorted[Len(sorted)]] - key[sorted[1]]
    IN  [sortedFront |-> sorted,
         pop |-> IF Abs(objRange) < 1 THEN ends
                 ELSE Accumulate(ends, sorted, objIdx, objRange, 2)]

RECURSIVE CrowdObjectives(_, _, _, _)
CrowdObjectives(pop, sortedFront, objIdx, nObj) ==
    IF objIdx > nObj THEN pop
    ELSE LET c == CrowdObjective(pop, sortedFront, objIdx)
         IN  CrowdObjectives(c.pop, c.sortedFront, objIdx + 1, nObj)

\* only the first member of a small front is set (used to test C12)
SetHeadInfinity(pop, front) ==
    IF front = <<>> THEN pop ELSE SetInfinity(pop, Head(front))

RECURSIVE SetAllInfinity(_, _)
SetAllInfinity(pop, front) ==
    IF front = <<>> THEN pop
    ELSE SetAllInfinity(SetInfinity(pop, Head(front)), Tail(front))

\* the body of "for (size_t f = 0; f < fronts.size(); ++f)" in nonDominatedSorting
CrowdFront(pop, front) ==
    IF Len(front) <= 2 THEN SetAllInfinity(pop, front)
    ELSE CrowdObjectives(pop, front, 1, Len(pop[front[1]].objectives))

RECURSIVE CrowdFronts(_, _, _)
CrowdFronts(pop, fs, f) ==
    IF f > Len(fs) THEN pop ELSE CrowdFronts(CrowdFront(pop, fs[f]), fs, f + 1)

\* nonDominatedSorting(population): ranks, then crowding distances
nonDominatedSorting(pop) ==
    LET fs == ComputeFronts(pop)
    IN  [population |-> CrowdFronts(AssignRanks(pop, fs), fs, 1), fronts |-> fs]

(***************************************************************************)
(* Variation operators.                                                    *)
(***************************************************************************)
\* a blend that does not clamp (used to test C7)
blendUnclamped(p1, p2, lo, hi, u) ==
    LET d == Abs(p1 - p2)
        twice == 2 * Min(p1, p2) - d + (4 * d * u) \div RngResolution
    IN  twice \div 2

\* the lambda blend of crossover, alpha = 0.5, the draw being u:
\* lower = min(p1,p2) - alpha*d, upper = max(p1,p2) + alpha*d,
\* max(min, min(max, lower + u * (upper - lower)))
blend(p1, p2, lo, hi, u) ==
    LET d == Abs(p1 - p2)
        twice == 2 * Min(p1, p2) - d + (4 * d * u) \div RngResolution
    IN  Clamp(twice \div 2, lo, hi)

\* dist(rng) < 0.5 ? parent1's value : parent2's value
EitherOf(v1, v2, u) == IF u * 2 < RngResolution THEN v1 ELSE v2

\* a crossover that starts the offspring as a copy of the first parent, rank
\* and crowding distance included (used to test C29)
crossoverFromParent(parent1, parent2, r) ==
    LET p == parent1.params
        q == parent2.params
    IN  [ind |->
            [parent1 EXCEPT !.params =
                [powerRating        |-> blend(p.powerRating, q.powerRating, 5, 500, UniformAt(r, 1)),
                 maxSpeed           |-> blend(p.maxSpeed, q.maxSpeed, 1000, 30000, UniformAt(r, 2)),
                 wheelDiameter      |-> blend(p.wheelDiameter, q.wheelDiameter, 50, 1000, UniformAt(r, 3)),
                 bearingPreload     |-> blend(p.bearingPreload, q.bearingPreload, 100, 2000, UniformAt(r, 4)),
                 alignmentTolerance |-> blend(p.alignmentTolerance, q.alignmentTolerance, 10, 1000, UniformAt(r, 5)),
                 spindleType        |-> EitherOf(p.spindleType, q.spindleType, UniformAt(r, 6)),
                 bearingType        |-> EitherOf(p.bearingType, q.bearingType, UniformAt(r, 7)),
                 coolingType        |-> EitherOf(p.coolingType, q.coolingType, UniformAt(r, 8)),
                 lubricationType    |-> EitherOf(p.lubricationType, q.lubricationType, UniformAt(r, 9)),
                 toolInterface      |-> EitherOf(p.toolInterface, q.toolInterface, UniformAt(r, 10))]],
         rng |-> RngAfter(r, 10)]

\* crossover(parent1, parent2): a fresh Individual, ten draws
crossover(parent1, parent2, r) ==
    LET p == parent1.params
        q == parent2.params
    IN  [ind |->
            [NewIndividual(0) EXCEPT !.params =
                [powerRating        |-> blend(p.powerRating, q.powerRating, 5, 500, UniformAt(r, 1)),
                 maxSpeed           |-> blend(p.maxSpeed, q.maxSpeed, 1000, 30000, UniformAt(r, 2)),
                 wheelDiameter      |-> blend(p.wheelDiameter, q.wheelDiameter, 50, 1000, UniformAt(r, 3)),
                 bearingPreload     |-> blend(p.bearingPreload, q.bearingPreload, 100, 2000, UniformAt(r, 4)),
                 alignmentTolerance |-> blend(p.alignmentTolerance, q.alignmentTolerance, 10, 1000, UniformAt(r, 5)),
                 spindleType        |-> EitherOf(p.spindleType, q.spindleType, UniformAt(r, 6)),
                 bearingType        |-> EitherOf(p.bearingType, q.bearingType, UniformAt(r, 7)),
                 coolingType        |-> EitherOf(p.coolingType, q.coolingType, UniformAt(r, 8)),
                 lubricationType    |-> EitherOf(p.lubricationType, q.lubricationType, UniformAt(r, 9)),
                 toolInterface      |-> EitherOf(p.toolInterface, q.toolInterface, UniformAt(r, 10))]],
         rng |-> RngAfter(r, 10)]

\* y^n in units of 0.001
RECURSIVE PowMilli(_, _)
PowMilli(y, n) == IF n = 0 THEN 1000 ELSE (y * PowMilli(y, n - 1)) \div 1000

\* std::pow(x, 1.0 / (eta + 1.0)), eta = 20, in units of 0.001: the largest y
\* in lo .. hi with y^21 <= x
RECURSIVE Root21(_, _, _)
Root21(x, lo, hi) ==
    IF lo >= hi THEN lo
    ELSE LET mid == (lo + hi + 1) \div 2
         IN  IF PowMilli(mid, 21) <= x THEN Root21(x, mid, hi) ELSE Root21(x, lo, mid - 1)

\* deltaq of the polynomial mutation, the second draw being u (rand = u / RngResolution)
DeltaQ(u) ==
    IF 2 * u <= RngResolution
    THEN Root21((2 * u * 1000) \div RngResolution, 0, 1000) - 1000
    ELSE 1000 - Root21((2 * (RngResolution - u) * 1000) \div RngResolution, 0, 1000)

\* the lambda mutateContinuous: one draw decides, a second one perturbs
mutateContinuous(value, lo, hi, r) ==
    IF Uniform(r) * 10 >= RngResolution
    THEN [value |-> value, rng |-> NextRng(r)]
    ELSE LET deltaq == DeltaQ(Uniform(NextRng(r)))
             moved == IF deltaq < 0 THEN value + ((value - lo) * deltaq) \div 1000
                      ELSE value + ((hi - value) * deltaq) \div 1000
         IN  [value |-> Clamp(moved, lo, hi), rng |-> RngAfter(r, 2)]

\* a categorical mutation that redraws the field whatever the first draw says
\* (used to test C24)
mutateCategoricalAlways(value, choices, r) ==
    [value |-> Pick(choices, Uniform(NextRng(r))), rng |-> RngAfter(r, 2)]

\* if (dist(rng) < mutationProb) field = choices[int(dist(rng) * choices.size())]
mutateCategorical(value, choices, r) ==
    IF Uniform(r) * 10 < RngResolution
    THEN [value |-> Pick(choices, Uniform(NextRng(r))), rng |-> RngAfter(r, 2)]
    ELSE [value |-> value, rng |-> NextRng(r)]

\* mutate(ind): the ten fields in the order of the code; only params change
mutate(ind, r) ==
    LET p == ind.params
        m1 == mutateContinuous(p.powerRating, 5, 500, r)
        m2 == mutateContinuous(p.maxSpeed, 1000, 30000, m1.rng)
        m3 == mutateContinuous(p.wheelDiameter, 50, 1000, m2.rng)
        m4 == mutateContinuous(p.bearingPreload, 100, 2000, m3.rng)
        m5 == mutateContinuous(p.alignmentTolerance, 10, 1000, m4.rng)
        m6 == mutateCategorical(p.spindleType, spindleTypes, m5.rng)
        m7 == mutateCategorical(p.bearingType, bearingTypes, m6.rng)
        m8 == mutateCategorical(p.coolingType, coolingTypes, m7.rng)
        m9 == mutateCategorical(p.lubricationType, lubricationTypes, m8.rng)
        m10 == mutateCategorical(p.toolInterface, toolInterfaces, m9.rng)
    IN  [ind |->
            [ind EXCEPT !.params =
                [powerRating |-> m1.value, maxSpeed |-> m2.value,
                 wheelDiameter |-> m3.value, bearingPreload |-> m4.value,
                 alignmentTolerance |-> m5.value, spindleType |-> m6.value,
                 bearingType |-> m7.value, coolingType |-> m8.value,
                 lubricationType |-> m9.value, toolInterface |-> m10.value]],
         rng |-> m10.rng]

(***************************************************************************)
(* The ranking code inlined in the generational loop.                      *)
(***************************************************************************)
\* an accumulation loop that assigns the term instead of adding it (used to
\* test C28)
RECURSIVE InlineAssign(_, _, _, _, _)
InlineAssign(comb, sortedFront, objIdx, objRange, i) ==
    IF i > Len(sortedFront) - 1 THEN comb
    ELSE LET me == sortedFront[i]
             diff == comb[sortedFront[i + 1]].objectives[objIdx]
                     - comb[sortedFront[i - 1]].objectives[objIdx]
         IN  InlineAssign(
                [comb EXCEPT ![me].crowdingDistance = Ratio(diff, objRange)],
                sortedFront, objIdx, objRange, i + 1)

\* the guarded accumulation loop of the generational loop
RECURSIVE InlineAccumulate(_, _, _, _, _)
InlineAccumulate(comb, sortedFront, objIdx, objRange, i) ==
    IF i > Len(sortedFront) - 1 THEN comb
    ELSE LET me == sortedFront[i]
             ok == /\ i + 1 <= Len(sortedFront) /\ i >= 2
                   /\ me <= Len(comb)
                   /\ sortedFront[i + 1] <= Len(comb)
                   /\ sortedFront[i - 1] <= Len(comb)
             diff == comb[sortedFront[i + 1]].objectives[objIdx]
                     - comb[sortedFront[i - 1]].objectives[objIdx]
         IN  InlineAccumulate(
                IF ok THEN [comb EXCEPT ![me].crowdingDistance =
                               AddDistance(comb[me].crowdingDistance, Ratio(diff, objRange))]
                ELSE comb,
                sortedFront, objIdx, objRange, i + 1)

InlineCrowdObjective(comb, sortedFront, objIdx) ==
    LET key == [i \in 1..Len(comb) |-> comb[i].objectives[objIdx]]
        sorted == SortByKey(<<>>, sortedFront, key)
        first == IF sorted # <<>> /\ sorted[1] <= Len(comb)
                 THEN SetInfinity(comb, sorted[1]) ELSE comb
        ends == IF sorted # <<>> /\ sorted[Len(sorted)] <= Len(comb)
                THEN SetInfinity(first, sorted[Len(sorted)]) ELSE first
        objRange == key[sorted[Len(sorted)]] - key[sorted[1]]
    IN  [sortedFront |-> sorted,
         pop |-> IF Len(sorted) <= 2 THEN ends
                 ELSE IF Abs(objRange) < 1 THEN ends
                 ELSE InlineAccumulate(ends, sorted, objIdx, objRange, 2)]

RECURSIVE InlineCrowdObjectives(_, _, _, _)
InlineCrowdObjectives(comb, sortedFront, objIdx, nObj) ==
    IF objIdx > nObj THEN comb
    ELSE LET c == InlineCrowdObjective(comb, sortedFront, objIdx)
         IN  InlineCrowdObjectives(c.pop, c.sortedFront, objIdx + 1, nObj)

RECURSIVE InlineSetAllInfinity(_, _)
InlineSetAllInfinity(comb, front) ==
    IF front = <<>> THEN comb
    ELSE InlineSetAllInfinity(
            IF Head(front) <= Len(comb) THEN SetInfinity(comb, Head(front)) ELSE comb,
            Tail(front))

InlineCrowdFront(comb, front) ==
    IF Len(front) <= 2 THEN InlineSetAllInfinity(comb, front)
    ELSE InlineCrowdObjectives(comb, front, 1, Len(comb[front[1]].objectives))

RECURSIVE InlineCrowdFronts(_, _, _)
InlineCrowdFronts(comb, fs, f) ==
    IF f > Len(fs) THEN comb
    ELSE InlineCrowdFronts(InlineCrowdFront(comb, fs[f]), fs, f + 1)

\* a ranking that clears the stored crowding distances before it computes the
\* new ones (used to test C30)
InlineRankingFresh(comb) ==
    LET fs == ComputeFronts(comb)
        cleared == [i \in 1..Len(comb) |-> [comb[i] EXCEPT !.crowdingDistance = 0]]
    IN  [combined |-> InlineCrowdFronts(AssignRanks(cleared, fs), fs, 1), fronts |-> fs]

\* "Recompute fronts for combined population" and "Compute crowding distance"
InlineRanking(comb) ==
    LET fs == ComputeFronts(comb)
    IN  [combined |-> InlineCrowdFronts(AssignRanks(comb, fs), fs, 1), fronts |-> fs]

(***************************************************************************)
(* Environmental selection.                                                *)
(***************************************************************************)
\* the individuals of one front, in the front's order
Members(comb, front) ==
    LET inside == SelectSeq(front, LAMBDA i : i <= Len(comb))
    IN  [k \in 1..Len(inside) |-> comb[inside[k]]]

\* while (frontIdx < fronts.size() && population.size() + fronts[frontIdx].size() <= N)
RECURSIVE WholeFronts(_, _, _, _, _)
WholeFronts(comb, fs, populationSize, pop, frontIdx) ==
    IF frontIdx <= Len(fs) /\ Len(pop) + Len(fs[frontIdx]) <= populationSize
    THEN WholeFronts(comb, fs, populationSize, pop \o Members(comb, fs[frontIdx]), frontIdx + 1)
    ELSE [population |-> pop, frontIdx |-> frontIdx]

\* a partial front taken in the front's own order (used to test C11)
PartialFrontUnsorted(comb, front, remaining) ==
    Members(comb, SubSeq(front, 1, Min(remaining, Len(front))))

\* the partial front: sorted by descending crowding distance, the first
\* `remaining` are taken
PartialFront(comb, front, remaining) ==
    LET key == [i \in 1..Len(comb) |-> 0 - comb[i].crowdingDistance]
        sortedFront == SortByKey(<<>>, front, key)
    IN  Members(comb, SubSeq(sortedFront, 1, Min(remaining, Len(sortedFront))))

\* a selection that keeps the parents and drops every offspring (used to test C4)
SelectParentsOnly(comb, fs, populationSize) ==
    SubSeq(comb, 1, Min(populationSize, Len(comb)))

\* a selection that forgets the partial front (used to test C1)
SelectWholeFrontsOnly(comb, fs, populationSize) ==
    WholeFronts(comb, fs, populationSize, <<>>, 1).population

\* a selection that evaluates the survivors again (used to test C17)
SelectAndReevaluate(comb, fs, populationSize) ==
    LET w == WholeFronts(comb, fs, populationSize, <<>>, 1)
        kept == IF Len(w.population) < populationSize /\ w.frontIdx <= Len(fs)
                THEN w.population
                     \o PartialFront(comb, fs[w.frontIdx], populationSize - Len(w.population))
                ELSE w.population
    IN  [k \in 1..Len(kept) |->
            evaluateObjectives(kept[k], cfg.duration, cfg.loadFactor, RngAfter(rng, k)).ind]

\* "Populate next generation"
SelectNextGeneration(comb, fs, populationSize) ==
    LET w == WholeFronts(comb, fs, populationSize, <<>>, 1)
    IN  IF Len(w.population) < populationSize /\ w.frontIdx <= Len(fs)
        THEN w.population
             \o PartialFront(comb, fs[w.frontIdx], populationSize - Len(w.population))
        ELSE w.population

(***************************************************************************)
(* optimizeSpindleArrangement as a state machine.                          *)
(***************************************************************************)
NoConfig == [duration |-> 0, loadFactor |-> 0, populationSize |-> 0, generations |-> 0]
NoResult == [kind |-> "none", message |-> "", rows |-> <<>>, paretoCount |-> 0]
NoRun == [cfg |-> NoConfig, seed |-> 0, popLog |-> <<>>, result |-> NoResult]

\* the configurations a caller may pass: below, on and above every limit
Durations == {-10, 0, 5, 20}
LoadFactors == {4, 5, 20, 21}
PopulationSizes == {5, 9} \cup (10..MaxPopulationSize)
Generations == 0..MaxGenerations

Configs ==
    [duration : Durations, loadFactor : LoadFactors,
     populationSize : PopulationSizes, generations : Generations]

\* a validation that forgets the population size (used to test C5)
ValidateWithoutPopulationSize(c) ==
    IF c.duration <= 0 THEN "Duration must be positive"
    ELSE IF c.loadFactor < 5 \/ c.loadFactor > 20
         THEN "Load factor must be between 0.5 and 2.0"
    ELSE IF c.generations < 1
         THEN "Population size must be at least 10 and generations at least 1"
    ELSE "Valid"

\* "Validate inputs": the message of the first check that throws, or "Valid"
ValidateInputs(c) ==
    IF c.duration <= 0 THEN "Duration must be positive"
    ELSE IF c.loadFactor < 5 \/ c.loadFactor > 20
         THEN "Load factor must be between 0.5 and 2.0"
    ELSE IF c.populationSize < 10 \/ c.generations < 1
         THEN "Population size must be at least 10 and generations at least 1"
    ELSE "Valid"

\* the catch handlers: the exception's text becomes the returned string
ErrorResult(what) ==
    [kind |-> "error", message |-> what, rows |-> <<>>, paretoCount |-> 0]

history == <<evalCount, rngAtCall, genLog, popLog, calls, prevRun, seed>>
standalone == <<domIn, domOut>>
table == <<historicalData, tableAtCall, lastOp>>

\* no public method has been called yet
NoOp == [name |-> "", params |-> DefaultParameters, duration |-> 0]

\* an evaluation that records the candidate as runSimulationStage records a
\* stage (used to test C19)
HistoricalDataWithEntry(data) ==
    Append(data, [vibration |-> 0, temperature |-> 0, load |-> 0, bearingLife |-> 0,
                  wheelWear |-> 0])

\* evaluateObjectives has no statement on historicalData, and none of the
\* functions it calls has one: the table after a call is the table before it
HistoricalDataAfterEvaluate(data) == data

Init ==
    /\ rng \in 0..MaxSeed
    /\ pc = "idle"
    /\ cfg = NoConfig
    /\ population = <<>>
    /\ offspring = <<>>
    /\ combined = <<>>
    /\ fronts = <<>>
    /\ gen = 0
    /\ idx = 0
    /\ result = NoResult
    /\ evalCount = 0
    /\ rngAtCall = rng
    /\ genLog = <<>>
    /\ popLog = <<>>
    /\ calls = 0
    /\ prevRun = NoRun
    /\ seed = rng
    /\ domIn = <<>>
    /\ domOut = <<>>
    /\ historicalData = <<>>
    /\ tableAtCall = <<>>
    /\ lastOp = NoOp

\* entry of optimizeSpindleArrangement: validation, then the population vector
Enter(c) ==
    /\ pc = "idle"
    /\ cfg' = c
    /\ calls' = calls + 1
    /\ rngAtCall' = rng
    /\ evalCount' = 0
    /\ genLog' = <<>>
    /\ popLog' = <<>>
    /\ offspring' = <<>>
    /\ combined' = <<>>
    /\ fronts' = <<>>
    /\ gen' = 0
    /\ idx' = 1
    /\ IF ValidateInputs(c) # "Valid"
       THEN /\ pc' = "returned"
            /\ result' = ErrorResult(ValidateInputs(c))
            /\ population' = <<>>
       ELSE /\ pc' = "init"
            /\ result' = NoResult
            /\ population' = SubSeq([i \in 1..c.populationSize |-> NewIndividual(i)],
                                   1, c.populationSize)
    /\ tableAtCall' = historicalData
    /\ lastOp' = [name |-> "optimizeSpindleArrangement", params |-> DefaultParameters,
                  duration |-> c.duration]
    /\ UNCHANGED <<rng, prevRun, seed, standalone, historicalData>>

Optimize(configs) == \E c \in configs : Enter(c)

\* one pass of "Initialize population": parameters, then objectives
InitIndividual ==
    /\ pc = "init"
    /\ LET g == generateRandomParameters(rng)
           e == evaluateObjectives([population[idx] EXCEPT !.params = g.params],
                                   cfg.duration, cfg.loadFactor, g.rng)
       IN  /\ population' = [population EXCEPT ![idx] = e.ind]
           /\ rng' = e.rng
    /\ historicalData' = HistoricalDataAfterEvaluate(historicalData)
    /\ evalCount' = evalCount + 1
    /\ idx' = idx + 1
    /\ pc' = IF idx + 1 > Len(population) THEN "sort" ELSE "init"
    /\ UNCHANGED <<cfg, offspring, combined, fronts, gen, result,
                   rngAtCall, genLog, popLog, calls, prevRun, seed, standalone,
                   tableAtCall, lastOp>>

\* a loop that also stops once the whole population is of rank 1 (used to test C9)
StopWhenConverged(g) ==
    IF g < cfg.generations /\ \E i \in 1..Len(population) : population[i].rank # 1
    THEN "vary" ELSE "report"

\* where the for loop over gen goes next
LoopOrReport(g) == IF g < cfg.generations THEN "vary" ELSE "report"

\* nonDominatedSorting(population) before the main loop
InitialSort ==
    /\ pc = "sort"
    /\ LET s == nonDominatedSorting(population)
       IN  /\ population' = s.population
           /\ fronts' = s.fronts
           /\ popLog' = Append(popLog, s.population)
    /\ offspring' = <<>>
    /\ pc' = LoopOrReport(gen)
    /\ UNCHANGED <<rng, cfg, combined, gen, idx, result,
                   evalCount, rngAtCall, genLog, calls, prevRun, seed, standalone, table>>

\* an index rounded to the nearest slot instead of truncated (used to test C26)
TournamentIndexRounded(u, populationSize) ==
    (2 * u * populationSize + RngResolution) \div (2 * RngResolution) + 1

\* static_cast<size_t>(dist(rng) * populationSize), 1-based
TournamentIndex(u, populationSize) == (u * populationSize) \div RngResolution + 1

\* the comparison that orders the two drawn individuals for crossover
Precedes(parent1, parent2) ==
    \/ parent1.rank < parent2.rank
    \/ parent1.rank = parent2.rank /\ parent1.crowdingDistance > parent2.crowdingDistance

\* the offspring of the two drawn individuals: crossover with the preferred
\* one as first parent, mutation, evaluation
Breed(parent1, parent2, r) ==
    LET x == IF Precedes(parent1, parent2)
             THEN crossover(parent1, parent2, r)
             ELSE crossover(parent2, parent1, r)
        m == mutate(x.ind, x.rng)
    IN  evaluateObjectives(m.ind, cfg.duration, cfg.loadFactor, m.rng)

\* one pass of "while (offspring.size() < populationSize)"
MakeOffspring ==
    /\ pc = "vary"
    /\ LET idx1 == TournamentIndex(UniformAt(rng, 1), cfg.populationSize)
           idx2 == TournamentIndex(UniformAt(rng, 2), cfg.populationSize)
           r2 == RngAfter(rng, 2)
       IN  IF idx1 > Len(population) \/ idx2 > Len(population)
           THEN /\ pc' = "returned"
                /\ result' = ErrorResult("Invalid tournament indices")
                /\ rng' = r2
                /\ UNCHANGED <<offspring, evalCount, historicalData>>
           ELSE LET e == Breed(population[idx1], population[idx2], r2)
                    made == [e.ind EXCEPT !.uid = evalCount + 1]
                IN  /\ offspring' = Append(offspring, made)
                    /\ rng' = e.rng
                    /\ historicalData' = HistoricalDataAfterEvaluate(historicalData)
                    /\ evalCount' = evalCount + 1
                    /\ pc' = IF Len(offspring) + 1 < cfg.populationSize THEN "vary" ELSE "rank"
                    /\ UNCHANGED result
    /\ UNCHANGED <<cfg, population, combined, fronts, gen, idx,
                   rngAtCall, genLog, popLog, calls, prevRun, seed, standalone,
                   tableAtCall, lastOp>>

\* "Combine parent and offspring populations", then the inlined ranking
CombineAndRank ==
    /\ pc = "rank"
    /\ LET comb == population \o offspring
       IN  IF comb = <<>>
           THEN /\ pc' = "returned"
                /\ result' = ErrorResult("Combined population is empty")
                /\ UNCHANGED <<combined, fronts>>
           ELSE LET k == InlineRanking(comb)
                IN  /\ combined' = k.combined
                    /\ fronts' = k.fronts
                    /\ pc' = "truncate"
                    /\ UNCHANGED result
    /\ UNCHANGED <<rng, cfg, population, offspring, gen, idx,
                   evalCount, rngAtCall, genLog, popLog, calls, prevRun, seed, standalone, table>>

\* "Populate next generation" and the end of the loop body
Truncate ==
    /\ pc = "truncate"
    /\ LET next == SelectNextGeneration(combined, fronts, cfg.populationSize)
       IN  /\ population' = next
           /\ IF next = <<>>
              THEN /\ pc' = "returned"
                   /\ result' = ErrorResult("Population is empty after selection")
                   /\ UNCHANGED <<gen, genLog, popLog>>
              ELSE /\ pc' = LoopOrReport(gen + 1)
                   /\ gen' = gen + 1
                   /\ genLog' = Append(genLog, Len(offspring))
                   /\ popLog' = Append(popLog, next)
                   /\ UNCHANGED result
    /\ offspring' = <<>>
    /\ UNCHANGED <<rng, cfg, combined, fronts, idx,
                   evalCount, rngAtCall, calls, prevRun, seed, standalone, table>>

\* "Output Pareto front (rank 1 solutions)": one row per individual of rank 1
Report ==
    /\ pc = "report"
    /\ LET rows == SelectSeq(population, LAMBDA ind : ind.rank = 1)
       IN  result' = [kind |-> "report", message |-> "", rows |-> rows,
                      paretoCount |-> Len(rows)]
    /\ pc' = "returned"
    /\ UNCHANGED <<rng, cfg, population, offspring, combined, fronts, gen, idx,
                   history, standalone, table>>

Run == InitIndividual \/ InitialSort \/ MakeOffspring \/ CombineAndRank \/ Truncate \/ Report

Next == Optimize(Configs) \/ Run

Spec == Init /\ [][Next]_vars

(***************************************************************************)
(* Several calls on one SpindleSimulation object, as the menu loop of      *)
(* main.cpp makes them: rng is a member and is never re-seeded.            *)
(***************************************************************************)
MaxCalls == 2

RepeatConfigs ==
    [duration : {0, 20}, loadFactor : {10}, populationSize : {10}, generations : {1}]

\* the caller has the returned string and is back at the menu
Return ==
    /\ pc = "returned"
    /\ calls < MaxCalls
    /\ pc' = "idle"
    /\ prevRun' = [cfg |-> cfg, seed |-> seed, popLog |-> popLog, result |-> result]
    /\ UNCHANGED <<rng, cfg, population, offspring, combined, fronts, gen, idx, result,
                   evalCount, rngAtCall, genLog, popLog, calls, seed, standalone, table>>

RepeatNext == Optimize(RepeatConfigs) \/ Run \/ Return

RepeatSpec == Init /\ [][RepeatNext]_vars

(***************************************************************************)
(* Stand-alone sorting: nonDominatedSorting and the inlined ranking, each  *)
(* applied to every population of up to MaxSortLen individuals whose       *)
(* objective vectors are drawn from SortVectors.                           *)
(***************************************************************************)
\* evaluateObjectives always assigns three objectives
NumObjectives == 3

SortValues == {0, 1}
SortVectors == [1..NumObjectives -> SortValues]

SortPopulations ==
    UNION {[1..n -> SortVectors] : n \in 1..MaxSortLen}

Unranked(vectors) ==
    [i \in 1..Len(vectors) |-> [NewIndividual(i) EXCEPT !.objectives = vectors[i]]]

\* Either the state before the initial sorting, or the state of generation 0
\* before the inlined ranking: a sorted population and as many new offspring.
\* the start of a ranking of the given populations: either nonDominatedSorting
\* is about to run on all of it, or its first half has been ranked and its
\* second half is the offspring about to be combined with it
RankingInit(populations) ==
    /\ rng = 0
    /\ \E vectors \in populations :
         LET n == Len(vectors)
             all == Unranked(vectors)
         IN  \/ /\ pc = "sort"
                /\ population = all
                /\ offspring = <<>>
                /\ fronts = <<>>
                /\ popLog = <<>>
                /\ cfg = [duration |-> 20, loadFactor |-> 10,
                          populationSize |-> n, generations |-> 1]
                /\ evalCount = n
             \/ /\ pc = "rank"
                /\ n % 2 = 0
                /\ LET s == nonDominatedSorting(SubSeq(all, 1, n \div 2))
                   IN  /\ population = s.population
                       /\ fronts = s.fronts
                       /\ popLog = <<s.population>>
                /\ offspring = SubSeq(all, n \div 2 + 1, n)
                /\ cfg = [duration |-> 20, loadFactor |-> 10,
                          populationSize |-> n \div 2, generations |-> 1]
                /\ evalCount = n
    /\ combined = <<>>
    /\ gen = 0
    /\ idx = 0
    /\ result = NoResult
    /\ rngAtCall = 0
    /\ genLog = <<>>
    /\ calls = 1
    /\ prevRun = NoRun
    /\ seed = rng
    /\ domIn = <<>>
    /\ domOut = <<>>
    /\ historicalData = <<>>
    /\ tableAtCall = <<>>
    /\ lastOp = NoOp

SortInit == RankingInit(SortPopulations)

SortNext == InitialSort \/ CombineAndRank

SortSpec == SortInit /\ [][SortNext]_vars

\* The same rankings on objective vectors with three levels, the first and
\* the third objective moving together: fronts of three with a middle member.
MaxSpreadLen == 4

SpreadVectors == {v \in [1..NumObjectives -> 0..2] : v[3] = v[1]}

SpreadPopulations == UNION {[1..n -> SpreadVectors] : n \in 3..MaxSpreadLen}

SpreadInit == RankingInit(SpreadPopulations)

SpreadSpec == SpreadInit /\ [][SortNext]_vars

(***************************************************************************)
(* Stand-alone dominates: three objective vectors of one length.           *)
(***************************************************************************)
DomVectors == UNION {[1..n -> 0..MaxObjValue] : n \in 1..NumObjectives}

DomInit ==
    /\ rng = 0
    /\ pc = "dominates"
    /\ \E a, b, c \in DomVectors :
         /\ Len(a) = Len(b) /\ Len(b) = Len(c)
         /\ domIn = <<a, b, c>>
    /\ domOut = <<>>
    /\ historicalData = <<>>
    /\ tableAtCall = <<>>
    /\ lastOp = NoOp
    /\ cfg = NoConfig
    /\ population = <<>>
    /\ offspring = <<>>
    /\ combined = <<>>
    /\ fronts = <<>>
    /\ gen = 0
    /\ idx = 0
    /\ result = NoResult
    /\ evalCount = 0
    /\ rngAtCall = 0
    /\ genLog = <<>>
    /\ popLog = <<>>
    /\ calls = 0
    /\ prevRun = NoRun
    /\ seed = 0

\* dominates(x, y) for every ordered pair of the three inputs
ApplyDominates ==
    /\ pc = "dominates"
    /\ LET ind(v) == [NewIndividual(0) EXCEPT !.objectives = v]
       IN  domOut' = [x \in 1..3 |-> [y \in 1..3 |-> dominates(ind(domIn[x]), ind(domIn[y]))]]
    /\ pc' = "returned"
    /\ UNCHANGED <<rng, cfg, population, offspring, combined, fronts, gen, idx, result,
                   history, domIn, table>>

DomSpec == DomInit /\ [][ApplyDominates]_vars

(***************************************************************************)
(* simulate and simulateTimeBased: the validation, then the stages that    *)
(* draw from rng and append to historicalData.  A DataPoint carries the    *)
(* fields the physics above yields (vibration and wheelWear in 0.001,      *)
(* temperature in 0.001 degrees, load in N, bearingLife in 10 h);          *)
(* spindleLife and label, which take calculateSpindleFatigueLife and the   *)
(* k-NN vote, are not carried.  duration is in 0.01 s.                     *)
(***************************************************************************)
\* a validateParameters that checks the speed before the power (used to test C20)
validateSpeedFirst(params) ==
    IF params.maxSpeed < 1000 \/ params.maxSpeed > 30000
    THEN "Error: Max speed must be between 1000 and 30000 RPM\n"
    ELSE IF params.powerRating < 5 \/ params.powerRating > 500
    THEN "Error: Power rating must be between 0.5 and 50 kW\n"
    ELSE IF params.wheelDiameter < 50 \/ params.wheelDiameter > 1000
    THEN "Error: Wheel diameter must be between 50 and 1000 mm\n"
    ELSE IF params.bearingPreload < 100 \/ params.bearingPreload > 2000
    THEN "Error: Bearing preload must be between 100 and 2000 N\n"
    ELSE IF params.alignmentTolerance < 10 \/ params.alignmentTolerance > 1000
    THEN "Error: Alignment tolerance must be between 0.0001 and 0.01 mm\n"
    ELSE "Valid"

\* validateParameters: five range checks, each returning its own message
validateParameters(params) ==
    IF params.powerRating < 5 \/ params.powerRating > 500
    THEN "Error: Power rating must be between 0.5 and 50 kW\n"
    ELSE IF params.maxSpeed < 1000 \/ params.maxSpeed > 30000
    THEN "Error: Max speed must be between 1000 and 30000 RPM\n"
    ELSE IF params.wheelDiameter < 50 \/ params.wheelDiameter > 1000
    THEN "Error: Wheel diameter must be between 50 and 1000 mm\n"
    ELSE IF params.bearingPreload < 100 \/ params.bearingPreload > 2000
    THEN "Error: Bearing preload must be between 100 and 2000 N\n"
    ELSE IF params.alignmentTolerance < 10 \/ params.alignmentTolerance > 1000
    THEN "Error: Alignment tolerance must be between 0.0001 and 0.01 mm\n"
    ELSE "Valid"

\* the loop bound of generateHistoricalData
HistoricalEntries == 100

\* one pass of generateHistoricalData: six draws (vibration, temperature,
\* load, bearingLife, spindleLife, wheelWear), then emplace_back; draws
\* holds the six values
GeneratedPoint(draws) ==
    [vibration   |-> 200 + (draws[1] * 2000) \div RngResolution,
     temperature |-> 20000 + (draws[2] * 30000) \div RngResolution,
     load        |-> 500 + (draws[3] * 1500) \div RngResolution,
     bearingLife |-> 100 + (draws[4] * 4900) \div RngResolution,
     wheelWear   |-> (draws[6] * 40000) \div RngResolution]

\* generateHistoricalData: HistoricalEntries random entries appended, the
\* i-th made of the draws 6 * (i - 1) + 1 .. 6 * i
generateHistoricalData(data, r) ==
    LET draws == Draws(r, 6 * HistoricalEntries)
    IN  [data |-> data \o [i \in 1..HistoricalEntries |->
                              GeneratedPoint(SubSeq(draws, 6 * (i - 1) + 1, 6 * i))],
         rng |-> RngAfter(r, 6 * HistoricalEntries)]

\* std::vector<SimulationScenario> scenarios of simulate; the factors in tenths
Scenarios ==
    <<[name |-> "High-Speed",  speedFactor |-> 10, loadFactor |-> 8,  duration |-> 1000],
      [name |-> "High-Torque", speedFactor |-> 6,  loadFactor |-> 12, duration |-> 1000],
      [name |-> "Balanced",    speedFactor |-> 8,  loadFactor |-> 10, duration |-> 1000]>>

\* adjustedParams: a copy but for maxSpeed = int(maxSpeed * speedFactor)
AdjustedParams(params, scenario) ==
    [params EXCEPT !.maxSpeed = (params.maxSpeed * scenario.speedFactor) \div 10]

\* runSimulationStage: the load profile (one draw per step), the table
\* generated when empty, one entry appended
runSimulationStage(params, scenario, r, data) ==
    LET adjustedParams == AdjustedParams(params, scenario)
        lp == generateDynamicLoadProfile(adjustedParams, scenario.duration,
                                         scenario.loadFactor, r)
        loadProfile == lp.loadProfile
        tempRise == estimateTemperatureRise(adjustedParams)
        vibrationLevel == estimateVibration(adjustedParams)
        bearingLifeHours == calculateBearingL10Life(adjustedParams, loadProfile)
        wear == calculateWheelWear(adjustedParams, loadProfile, scenario.duration)
        wearVibration == calculateWearInducedVibration(adjustedParams, wear)
        g == IF data = <<>> THEN generateHistoricalData(data, lp.rng)
             ELSE [data |-> data, rng |-> lp.rng]
        avgLoad == SumSeq(loadProfile) \div Len(loadProfile)
        point == [vibration   |-> vibrationLevel + wearVibration,
                  temperature |-> tempRise + 20000,
                  load        |-> avgLoad,
                  bearingLife |-> bearingLifeHours,
                  wheelWear   |-> wear]
    IN  [data |-> Append(g.data, point), rng |-> g.rng]

\* the loop of simulate over the scenarios
RECURSIVE RunStages(_, _, _, _)
RunStages(params, scenarios, r, data) ==
    IF scenarios = <<>> THEN [data |-> data, rng |-> r]
    ELSE LET s == runSimulationStage(params, Head(scenarios), r, data)
         IN  RunStages(params, Tail(scenarios), s.rng, s.data)

\* generateComprehensiveReport: two loops over the scenarios, each pass
\* generating a load profile of StepsOf(duration) draws whatever the
\* parameters; the report changes rng only
generateComprehensiveReport(params, scenarios, r) ==
    LET steps == SumSeq([i \in 1..Len(scenarios) |-> StepsOf(scenarios[i].duration)])
    IN  RngAfter(r, 2 * steps)

\* the string a finished simulation returns is not modelled beyond its kind
SimulationResult == [kind |-> "simulation", message |-> "", rows |-> <<>>, paretoCount |-> 0]

\* simulate(params): result, rng and historicalData after the call
simulate(params, r, data) ==
    LET validationResult == validateParameters(params)
        staged == RunStages(params, Scenarios, r, data)
    IN  IF validationResult # "Valid"
        THEN [result |-> ErrorResult(validationResult), rng |-> r, data |-> data]
        ELSE [result |-> SimulationResult,
              rng |-> generateComprehensiveReport(params, Scenarios, staged.rng),
              data |-> staged.data]

\* estimateVibration(params, load): the load-free value times 1 + load / 2000
estimateVibrationUnderLoad(params, load) ==
    (estimateVibration(params) * (2000 + load)) \div 2000

\* estimateTemperatureRise(params, load): the load-free value plus load / 500
estimateTemperatureRiseUnderLoad(params, load) ==
    estimateTemperatureRise(params) + 2 * load

RECURSIVE MaxSeq(_)
MaxSeq(s) == IF Len(s) = 1 THEN Head(s) ELSE Max(Head(s), MaxSeq(Tail(s)))

\* simulateTimeBased(params, duration) for a duration of at least one step:
\* result, rng and historicalData after the call
simulateTimeBased(params, duration, r, data) ==
    LET validationResult == validateParameters(params)
        lp == generateDynamicLoadProfile(params, duration, 10, r)
        loadProfile == lp.loadProfile
        vibrationHistory ==
            [i \in 1..Len(loadProfile) |-> estimateVibrationUnderLoad(params, loadProfile[i])]
        rises ==
            [i \in 1..Len(loadProfile) |-> estimateTemperatureRiseUnderLoad(params, loadProfile[i])]
        \* currentTemp only grows: the maximum is the last value
        maxTemp == 20000 + SumSeq(rises) \div 100
        maxVibration == MaxSeq(vibrationHistory)
        bearingLifeHours == calculateBearingL10Life(params, loadProfile)
        wear == calculateWheelWear(params, loadProfile, duration)
        wearVibration == calculateWearInducedVibration(params, wear)
        g == IF data = <<>> THEN generateHistoricalData(data, lp.rng)
             ELSE [data |-> data, rng |-> lp.rng]
        avgLoad == SumSeq(loadProfile) \div Len(loadProfile)
        point == [vibration   |-> maxVibration + wearVibration,
                  temperature |-> maxTemp,
                  load        |-> avgLoad,
                  bearingLife |-> bearingLifeHours,
                  wheelWear   |-> wear]
    IN  IF validationResult # "Valid"
        THEN [result |-> ErrorResult(validationResult), rng |-> r, data |-> data]
        ELSE [result |-> SimulationResult, rng |-> g.rng, data |-> Append(g.data, point)]

\* a call of simulate
Simulate(p) ==
    /\ pc = "idle"
    /\ LET s == simulate(p, rng, historicalData)
       IN  /\ result' = s.result
           /\ rng' = s.rng
           /\ historicalData' = s.data
    /\ pc' = "returned"
    /\ calls' = calls + 1
    /\ rngAtCall' = rng
    /\ tableAtCall' = historicalData
    /\ lastOp' = [name |-> "simulate", params |-> p, duration |-> 0]
    /\ UNCHANGED <<cfg, population, offspring, combined, fronts, gen, idx,
                   evalCount, genLog, popLog, prevRun, seed, standalone>>

\* a call of simulateTimeBased
SimulateTimeBased(p, duration) ==
    /\ pc = "idle"
    /\ LET s == simulateTimeBased(p, duration, rng, historicalData)
       IN  /\ result' = s.result
           /\ rng' = s.rng
           /\ historicalData' = s.data
    /\ pc' = "returned"
    /\ calls' = calls + 1
    /\ rngAtCall' = rng
    /\ tableAtCall' = historicalData
    /\ lastOp' = [name |-> "simulateTimeBased", params |-> p, duration |-> duration]
    /\ UNCHANGED <<cfg, population, offspring, combined, fronts, gen, idx,
                   evalCount, genLog, popLog, prevRun, seed, standalone>>

(***************************************************************************)
(* The menu loop of main.cpp on its one SpindleSimulation object: the      *)
(* simulations and the optimizer in any order.  The parameters are a valid *)
(* set, the two sets lying on the bounds, and the valid set with any       *)
(* choice of its numbers put just below or just above their ranges (which  *)
(* the setters accept, though the prompts of main.cpp do not).             *)
(***************************************************************************)
MaxMenuSeed == 1

ValidParameters ==
    [spindleType |-> "Direct-Drive", powerRating |-> 100, maxSpeed |-> 10000,
     wheelDiameter |-> 200, bearingType |-> "Hybrid Ceramic", bearingPreload |-> 500,
     coolingType |-> "Liquid", lubricationType |-> "Oil-Air", toolInterface |-> "HSK",
     alignmentTolerance |-> 100]

\* the value of field f in a set whose fields are put on side of their ranges
Placed(f, fields, side) ==
    IF f \notin fields THEN ValidParameters[f]
    ELSE IF side = "below" THEN Bounds[f].min - 1
    ELSE IF side = "min" THEN Bounds[f].min
    ELSE IF side = "max" THEN Bounds[f].max
    ELSE Bounds[f].max + 1

WithPlaced(fields, side) ==
    [ValidParameters EXCEPT
        !.powerRating = Placed("powerRating", fields, side),
        !.maxSpeed = Placed("maxSpeed", fields, side),
        !.wheelDiameter = Placed("wheelDiameter", fields, side),
        !.bearingPreload = Placed("bearingPreload", fields, side),
        !.alignmentTolerance = Placed("alignmentTolerance", fields, side)]

OutOfRange(fields, side) == WithPlaced(fields, side)

OnBound(side) == WithPlaced(Range(ContinuousFields), side)

SimParams ==
    {OutOfRange(F, side) : F \in SUBSET Range(ContinuousFields), side \in {"below", "above"}}
        \cup {OnBound("min"), OnBound("max")}

\* one second: ten steps
TimeDurations == {100}

MenuConfigs ==
    [duration : {0, 20}, loadFactor : {10}, populationSize : {10}, generations : {1}]

MenuInit == Init /\ rng <= MaxMenuSeed

\* the caller has the returned string and is back at the menu
MenuReturn ==
    /\ pc = "returned"
    /\ calls < MaxCalls
    /\ pc' = "idle"
    /\ result' = NoResult
    /\ rngAtCall' = rng
    /\ tableAtCall' = historicalData
    /\ lastOp' = NoOp
    /\ UNCHANGED <<rng, cfg, population, offspring, combined, fronts, gen, idx,
                   evalCount, genLog, popLog, calls, prevRun, seed, standalone,
                   historicalData>>

MenuNext ==
    \/ \E p \in SimParams : Simulate(p)
    \/ \E p \in SimParams, d \in TimeDurations : SimulateTimeBased(p, d)
    \/ Optimize(MenuConfigs)
    \/ Run
    \/ MenuReturn

MenuSpec == MenuInit /\ [][MenuNext]_vars

(***************************************************************************)
(* Properties.                                                             *)
(***************************************************************************)
\* the configurations section 6 of the specification calls valid
ValidConfig(c) ==
    /\ c.duration > 0
    /\ c.loadFactor >= 5 /\ c.loadFactor <= 20
    /\ c.populationSize >= 10
    /\ c.generations >= 1

Running == pc \in {"init", "sort", "vary", "rank", "truncate", "report"}

\* the number of individuals the whole fronts contribute in the coming truncation
WholeCount == Len(WholeFronts(combined, fronts, cfg.populationSize, <<>>, 1).population)

\* C1: for a valid configuration the population holds exactly populationSize
\* individuals from its construction on, after every truncation and when the
\* report is returned, and the combined set holds exactly 2 * populationSize.
C1_PopulationSize ==
    ValidConfig(cfg) =>
        /\ Running \/ pc = "returned" => Len(population) = cfg.populationSize
        /\ pc = "truncate" => Len(combined) = 2 * cfg.populationSize
        /\ \A k \in 1..Len(popLog) : Len(popLog[k]) = cfg.populationSize

\* a second generation's truncation that has to cut a front
C1_Witness ==
    /\ pc = "truncate" /\ gen = 1
    /\ Len(combined) = 2 * cfg.populationSize
    /\ Len(population) = cfg.populationSize
    /\ WholeCount > 0 /\ WholeCount < cfg.populationSize

\* the fronts fs are a partition of the indices of pop, the rank of an
\* individual is the number of its front, and no front is empty
Ranked(pop, fs) ==
    /\ \A i \in 1..Len(pop) :
         /\ pop[i].rank >= 1
         /\ Cardinality({p \in {<<f, k>> : f \in 1..Len(fs), k \in 1..Len(pop)} :
                            p[2] <= Len(fs[p[1]]) /\ fs[p[1]][p[2]] = i}) = 1
         /\ pop[i].rank <= Len(fs) /\ i \in Range(fs[pop[i].rank])
    /\ \A f \in 1..Len(fs) : fs[f] # <<>> /\ Range(fs[f]) \subseteq 1..Len(pop)
    /\ {pop[i].rank : i \in 1..Len(pop)} = 1..Len(fs)

\* the population just ranked by nonDominatedSorting / by the inlined ranking
InitiallyRanked == pc \in {"vary", "rank"} /\ gen = 0
Reranked == pc = "truncate"

\* C2: after non-dominated sorting every individual has exactly one rank >= 1,
\* every index is in exactly one front, the fronts cover the population and
\* the ranks in use are 1 .. k without a gap.
C2_RanksPartition ==
    /\ InitiallyRanked => Ranked(population, fronts)
    /\ Reranked => Ranked(combined, fronts)

\* a re-ranking with three fronts, one of them of several individuals
C2_Witness ==
    /\ Reranked /\ Len(fronts) >= 3
    /\ \E f \in 1..Len(fronts) : Len(fronts[f]) >= 2

NonDominatingWithinRanks(pop) ==
    \A i, j \in 1..Len(pop) :
        pop[i].rank = pop[j].rank => ~dominates(pop[i], pop[j])

\* C3: after non-dominated sorting two individuals that share a rank never
\* dominate one another; in particular rank 1 is pairwise non-dominating.
C3_SameRankNonDominating ==
    /\ InitiallyRanked => NonDominatingWithinRanks(population)
    /\ Reranked => NonDominatingWithinRanks(combined)

\* two different objective vectors share rank 2, and rank 1 has two as well
C3_Witness ==
    /\ InitiallyRanked
    /\ \E i, j \in 1..Len(population) :
         /\ population[i].rank = 2 /\ population[j].rank = 2
         /\ population[i].objectives # population[j].objectives
    /\ Len(fronts[1]) >= 2

\* C10: dominates is irreflexive (also between equal vectors), asymmetric and
\* transitive on objective vectors of one length.
C10_StrictPartialOrder ==
    pc = "returned" /\ domOut # <<>> =>
        \A x, y, z \in 1..3 :
            /\ domIn[x] = domIn[y] => ~domOut[x][y]
            /\ domOut[x][y] => ~domOut[y][x]
            /\ domOut[x][y] /\ domOut[y][z] => domOut[x][z]

\* a chain of three 3-vectors, none equal to another
C10_Witness ==
    /\ pc = "returned" /\ domOut # <<>>
    /\ Len(domIn[1]) = NumObjectives
    /\ domOut[1][2] /\ domOut[2][3] /\ domOut[1][3]
    /\ ~domOut[2][1] /\ ~domOut[3][2]

Reported == pc = "returned" /\ result.kind = "report"

NonDominated(pop, i) == \A j \in 1..Len(pop) : ~dominates(pop[j], pop[i])

\* C4: the report lists exactly the individuals of the final population that
\* no other individual of it dominates, which are those of rank 1, one row
\* each; the printed count is the number of rows, between 1 and populationSize.
C4_ReportIsParetoFront ==
    Reported =>
        /\ \A i \in 1..Len(population) :
             population[i].rank = 1 <=> NonDominated(population, i)
        /\ result.rows =
             SelectSeq(population, LAMBDA ind :
                 \A j \in 1..Len(population) : ~dominates(population[j], ind))
        /\ result.paretoCount = Len(result.rows)
        /\ result.paretoCount >= 1
        /\ result.paretoCount <= cfg.populationSize

\* a report after two generations that leaves part of the population out
C4_Witness ==
    /\ Reported /\ gen = 2
    /\ result.paretoCount >= 2
    /\ result.paretoCount < cfg.populationSize

\* C5: a configuration outside the limits is answered by an error result
\* before any individual exists, any number is drawn or any objective is
\* evaluated; the call returns normally.
C5_InvalidRejectedFirst ==
    calls >= 1 /\ pc # "idle" /\ ~ValidConfig(cfg) =>
        /\ pc = "returned"
        /\ result.kind = "error"
        /\ result.message \in
             {"Duration must be positive", "Load factor must be between 0.5 and 2.0",
              "Population size must be at least 10 and generations at least 1"}
        /\ population = <<>> /\ offspring = <<>> /\ combined = <<>>
        /\ evalCount = 0
        /\ rng = rngAtCall

\* populationSize = 5 with everything else valid
C5_Witness ==
    /\ pc = "returned" /\ result.kind = "error"
    /\ cfg.populationSize = 5 /\ cfg.duration = 20 /\ cfg.loadFactor = 20
    /\ cfg.generations = 1
    /\ evalCount = 0 /\ rng = rngAtCall

\* the individuals that have been evaluated so far
Evaluated ==
    {population[i] : i \in {k \in 1..Len(population) : pc # "init" \/ k < idx}}
    \cup Range(offspring) \cup Range(combined) \cup Range(result.rows)

EvaluationFails == StepsOf(cfg.duration) = 0

\* C6: every evaluated individual carries three objectives; when the load
\* profile is empty they are the sentinel (1e10, -1e-10, 1e10), and the call
\* still ends with a report, never with an error.
C6_SentinelOnFailure ==
    ValidConfig(cfg) =>
        /\ \A ind \in Evaluated : Len(ind.objectives) = NumObjectives
        /\ EvaluationFails =>
             /\ \A ind \in Evaluated : ind.objectives = SentinelObjectives
             /\ pc = "returned" => result.kind = "report"
        /\ ~EvaluationFails =>
             \A ind \in Evaluated : ind.objectives # SentinelObjectives

\* a run of failed evaluations that reached its report
C6_Witness ==
    /\ Reported /\ ValidConfig(cfg) /\ EvaluationFails
    /\ evalCount = cfg.populationSize * (cfg.generations + 1)
    /\ result.rows # <<>>
    /\ \A k \in 1..Len(result.rows) : result.rows[k].objectives = SentinelObjectives

InBounds(params) ==
    /\ \A k \in 1..Len(ContinuousFields) :
         /\ params[ContinuousFields[k]] >= Bounds[ContinuousFields[k]].min
         /\ params[ContinuousFields[k]] <= Bounds[ContinuousFields[k]].max
    /\ params.spindleType \in Range(spindleTypes)
    /\ params.bearingType \in Range(bearingTypes)
    /\ params.coolingType \in Range(coolingTypes)
    /\ params.lubricationType \in Range(lubricationTypes)
    /\ params.toolInterface \in Range(toolInterfaces)

\* C7: every individual that has been created, by generateRandomParameters or
\* by crossover and mutate, has its five numbers inside their bounds and its
\* five categories inside their enumerations, in every generation.
C7_ParametersInBounds ==
    \A ind \in Evaluated : InBounds(ind.params)

\* second-generation offspring, one of them clamped to the lowest speed and
\* one to the highest preload
C7_Witness ==
    /\ pc = "rank" /\ gen = 1
    /\ \E k \in 1..Len(offspring) : offspring[k].params.maxSpeed = 1000
    /\ \E k \in 1..Len(offspring) : offspring[k].params.bearingPreload = 2000

\* C8: two calls with the same seed and the same configuration go through
\* the same populations and return the same report, whatever was done on the
\* object before.
C8_SameSeedSameRun ==
    pc = "returned" /\ prevRun # NoRun /\ prevRun.seed = seed /\ prevRun.cfg = cfg =>
        /\ prevRun.popLog = popLog
        /\ prevRun.result = result

\* the steps a call in progress still has to take: what is left of the current
\* loop, then the ranking, the truncation and the full later generations,
\* then the report
StepsLeft ==
    LET n == cfg.populationSize
        later == (cfg.generations - gen - 1) * (n + 2) + 1
    IN  CASE pc = "init"     -> (n - idx + 1) + 1 + cfg.generations * (n + 2) + 1
          [] pc = "sort"     -> 1 + cfg.generations * (n + 2) + 1
          [] pc = "vary"     -> (n - Len(offspring)) + 2 + later
          [] pc = "rank"     -> 2 + later
          [] pc = "truncate" -> 1 + later
          [] pc = "report"   -> 1
          [] OTHER           -> 0

\* C9: a call with a valid configuration comes to its end after exactly
\* `generations` passes of populationSize offspring each: every step of the
\* call takes exactly one off the steps those passes and the report require
\* (so no pass is repeated, skipped or cut short and the call cannot run for
\* ever), steps are left exactly while the call is in progress, and when it
\* has returned it has made exactly `generations` passes, each of
\* populationSize offspring, and holds a report.
C9_RunsAllGenerations ==
    /\ [][Running => StepsLeft' = StepsLeft - 1]_vars
    /\ [](Running <=> StepsLeft > 0)
    /\ [](pc = "returned" /\ ValidConfig(cfg) =>
            /\ result.kind = "report"
            /\ gen = cfg.generations
            /\ Len(genLog) = cfg.generations
            /\ \A k \in 1..Len(genLog) : genLog[k] = cfg.populationSize)

\* a finished run of two generations whose population was all of rank 1
\* after the first one
C9_Witness ==
    /\ Reported /\ cfg.generations = 2 /\ genLog = <<cfg.populationSize, cfg.populationSize>>
    /\ \A i \in 1..Len(popLog[2]) : popLog[2][i].rank = 1

\* a truncation has been made and its input is still at hand
Truncated ==
    /\ gen >= 1 /\ pc \in {"vary", "rank", "report", "returned"}
    /\ result.kind # "error" /\ combined # <<>>

\* the members of the ranked combined set that the truncation did not keep
Discarded ==
    {combined[i] : i \in {k \in 1..Len(combined) :
        \A j \in 1..Len(population) : population[j].uid # combined[k].uid}}

\* C11: after a truncation every kept individual has a rank no higher than
\* that of every discarded one, and where a kept and a discarded individual
\* share a rank (the front taken in part) the kept one has a crowding
\* distance no smaller than the discarded one.
C11_SelectionOrder ==
    Truncated =>
        \A j \in 1..Len(population) : \A d \in Discarded :
            /\ population[j].rank <= d.rank
            /\ population[j].rank = d.rank =>
                 population[j].crowdingDistance >= d.crowdingDistance

\* a truncation that split a front between a kept member of finite crowding
\* distance and a discarded one of smaller distance, with a worse front dropped
C11_Witness ==
    /\ Truncated
    /\ \E j \in 1..Len(population) : \E d \in Discarded :
         /\ population[j].rank = d.rank
         /\ population[j].crowdingDistance < Infinity
         /\ population[j].crowdingDistance > d.crowdingDistance
    /\ \E j \in 1..Len(population) : \E d \in Discarded : population[j].rank < d.rank

\* every member of every front of one or two individuals has an infinite
\* crowding distance
SmallFrontsInfinite(pop, fs) ==
    \A f \in 1..Len(fs) :
        Len(fs[f]) <= 2 =>
            \A k \in 1..Len(fs[f]) : pop[fs[f][k]].crowdingDistance = Infinity

\* C12: after the crowding distances are computed, by nonDominatedSorting as
\* by the ranking inside the generational loop, every member of a front of
\* one or two individuals has crowding distance +infinity.
C12_SmallFrontsInfinite ==
    /\ InitiallyRanked => SmallFrontsInfinite(population, fronts)
    /\ Reranked => SmallFrontsInfinite(combined, fronts)

\* a re-ranking with a front of one and a front of two, the latter made of
\* new individuals only
C12_Witness ==
    /\ Reranked
    /\ \E f \in 1..Len(fronts) : Len(fronts[f]) = 1
    /\ \E f \in 1..Len(fronts) :
         /\ Len(fronts[f]) = 2
         /\ \A k \in 1..2 : fronts[f][k] > Len(population)

\* every member of a front whose value on some objective is the least or the
\* greatest of the front on that objective has an infinite crowding distance
ExtremesInfinite(pop, fs) ==
    \A f \in 1..Len(fs) : \A k \in 1..Len(fs[f]) : \A o \in 1..NumObjectives :
        LET vals == {pop[fs[f][j]].objectives[o] : j \in 1..Len(fs[f])}
            v == pop[fs[f][k]].objectives[o]
        IN  (\A w \in vals : v <= w) \/ (\A w \in vals : v >= w) =>
                pop[fs[f][k]].crowdingDistance = Infinity

\* C13: after the crowding distances of a front are computed, every member
\* that has the front's minimum or maximum on some objective has crowding
\* distance +infinity, also when several members share that extreme value.
C13_ExtremesInfinite ==
    /\ InitiallyRanked => ExtremesInfinite(population, fronts)
    /\ Reranked => ExtremesInfinite(combined, fronts)

\* the same individuals as they are when freshly created: no rank, crowding
\* distance 0.0
Fresh(pop) ==
    [i \in 1..Len(pop) |-> [pop[i] EXCEPT !.rank = 0, !.crowdingDistance = 0]]

\* C14: the ranks and crowding distances that the re-ranking of a combined
\* set leaves are those it would leave on freshly created individuals with
\* the same objective vectors in the same order: what a survivor carried
\* from the generation before has no influence.
C14_RecomputedFromScratch ==
    Reranked => combined = InlineRanking(Fresh(combined)).combined

\* m lies between a and b on objective o, at the same distance from both
Midway(pop, a, m, b, o) ==
    LET va == pop[a].objectives[o]
        vm == pop[m].objectives[o]
        vb == pop[b].objectives[o]
    IN  /\ (va < vm /\ vm < vb) \/ (vb < vm /\ vm < va)
        /\ vm - va = vb - vm

\* in every front of exactly three whose values are distinct and evenly
\* spaced, with one member between the two others on every objective, that
\* member has a finite positive crowding distance and the two others +infinity
MiddleFinite(pop, fs) ==
    \A f \in 1..Len(fs) :
        Len(fs[f]) = 3 =>
            \A a, m, b \in Range(fs[f]) :
                (\A o \in 1..NumObjectives : Midway(pop, a, m, b, o)) =>
                    /\ pop[m].crowdingDistance > 0
                    /\ pop[m].crowdingDistance < Infinity
                    /\ pop[a].crowdingDistance = Infinity
                    /\ pop[b].crowdingDistance = Infinity

Drawn ==
    <<TournamentIndex(UniformAt(rng, 1), cfg.populationSize),
      TournamentIndex(UniformAt(rng, 2), cfg.populationSize)>>

\* C16: the parents of an offspring are tournament winners and the loser of a
\* tournament contributes nothing to the offspring: with the winner of the
\* two drawn individuals kept, the offspring made would be the same had any
\* other individual that loses to this winner been drawn in the loser's place.
C16_LoserContributesNothing ==
    pc = "vary" =>
        \A w, l \in Range(Drawn) : \A q \in 1..Len(population) :
            /\ Precedes(population[w], population[l])
            /\ Precedes(population[w], population[q])
            => Breed(population[w], population[q], RngAfter(rng, 2)).ind
                 = Breed(population[w], population[l], RngAfter(rng, 2)).ind

\* every individual the call holds
Held == Range(population) \cup Range(offspring) \cup Range(combined)

\* the evaluations made so far, counted from the individuals created
Created ==
    (IF pc = "init" THEN idx - 1 ELSE cfg.populationSize)
    + gen * cfg.populationSize + Len(offspring)

\* C17: every individual's objectives are written once, right after its
\* creation and before it is ranked, and never again: the evaluations made
\* are as many as the individuals created, populationSize x (generations + 1)
\* when a valid call has returned; an individual not yet evaluated has no
\* objectives and every other one has three; and no step changes the
\* objectives of an individual that has them.
C17_EvaluatedOnce ==
    /\ [](Running /\ ValidConfig(cfg) =>
            /\ evalCount = Created
            /\ \A k \in 1..Len(population) :
                 IF pc = "init" /\ k >= idx
                 THEN population[k].objectives = <<>>
                 ELSE Len(population[k].objectives) = NumObjectives
            /\ \A x \in Range(offspring) \cup Range(combined) :
                 Len(x.objectives) = NumObjectives)
    /\ [](pc = "returned" /\ ValidConfig(cfg) =>
            evalCount = cfg.populationSize * (cfg.generations + 1))
    /\ [][Running => \A x \in Held : \A y \in Held' :
            x.uid = y.uid /\ x.objectives # <<>> => y.objectives = x.objectives]_vars

\* a returned run of two generations that reports an individual of the
\* initial population
C17_Witness ==
    /\ Reported /\ cfg.generations = 2
    /\ evalCount = 3 * cfg.populationSize
    /\ \E k \in 1..Len(result.rows) : result.rows[k].uid <= cfg.populationSize

\* a is better than b on every objective
StrictlyBetter(a, b) == \A o \in 1..NumObjectives : a.objectives[o] < b.objectives[o]

\* the groups of the population that are better on every objective than all
\* the individuals outside the group
DominatingGroups(pop) ==
    {D \in SUBSET (1..Len(pop)) :
        /\ D # {} /\ D # 1..Len(pop)
        /\ \A d \in D : \A r \in (1..Len(pop)) \ D : StrictlyBetter(pop[d], pop[r])}

\* the individuals of the report
RowUids == {result.rows[k].uid : k \in 1..Len(result.rows)}

\* a call of one generation has returned its report
ReportedAfterOne == Reported /\ cfg.generations = 1

\* the members of the combined set that none of its members dominates
NonDominatedUids ==
    {combined[i].uid : i \in {k \in 1..Len(combined) : NonDominated(combined, k)}}

\* C18 as claimed: after one generation the report holds every member of a
\* group of the initial population that strictly dominated all the others,
\* no member of the dominated rest, and besides the group only offspring
\* that are not dominated.
C18_DominatingGroupReported ==
    ReportedAfterOne =>
        \A D \in DominatingGroups(popLog[1]) :
            /\ \A d \in D : popLog[1][d].uid \in RowUids
            /\ \A r \in (1..Len(popLog[1])) \ D : popLog[1][r].uid \notin RowUids
            /\ \A k \in 1..Len(result.rows) :
                 result.rows[k].uid > cfg.populationSize =>
                     \A j \in 1..Len(population) :
                         ~dominates(population[j], result.rows[k])

\* C18 amended: after one generation the report holds no member of the
\* dominated rest and only individuals that no parent and no offspring
\* dominates; it holds all of these when they are at most populationSize, so
\* a member of the dominating group is reported unless an offspring or
\* another member of the group dominates it.
C18_DominatedGroupNotReported ==
    ReportedAfterOne =>
        /\ RowUids \subseteq NonDominatedUids
        /\ Cardinality(NonDominatedUids) <= cfg.populationSize =>
             RowUids = NonDominatedUids
        /\ \A D \in DominatingGroups(popLog[1]) :
             \A r \in (1..Len(popLog[1])) \ D : popLog[1][r].uid \notin RowUids

\* a report after one generation of a run whose initial population had a
\* dominating group without dominance inside: one member of the group is
\* reported and another, dominated by an offspring, is not
C18_Witness ==
    /\ ReportedAfterOne
    /\ \E D \in DominatingGroups(popLog[1]) :
         /\ \A d, e \in D : ~dominates(popLog[1][e], popLog[1][d])
         /\ \E d \in D : popLog[1][d].uid \in RowUids
         /\ \E d \in D : popLog[1][d].uid \notin RowUids

\* a call of optimizeSpindleArrangement is in progress or has just returned
Optimizing == lastOp.name = "optimizeSpindleArrangement" /\ pc # "idle"

\* C19: optimizeSpindleArrangement leaves historicalData alone: at every
\* point of a call, up to and including its return with a report or with an
\* error message, the table has the size and the contents it had when the
\* call was entered
C19_OptimizerLeavesTable == Optimizing => historicalData = tableAtCall

\* a call made with a generated table has returned its report
C19_Witness ==
    /\ Optimizing
    /\ pc = "returned"
    /\ result.kind = "report"
    /\ Len(historicalData) > HistoricalEntries
    /\ evalCount = 2 * cfg.populationSize

\* the numeric parameters in the order in which the bounds are to be checked
CheckOrder ==
    <<"powerRating", "maxSpeed", "wheelDiameter", "bearingPreload", "alignmentTolerance">>

\* the message that names each bound
BoundMessage ==
    [powerRating        |-> "Error: Power rating must be between 0.5 and 50 kW\n",
     maxSpeed           |-> "Error: Max speed must be between 1000 and 30000 RPM\n",
     wheelDiameter      |-> "Error: Wheel diameter must be between 50 and 1000 mm\n",
     bearingPreload     |-> "Error: Bearing preload must be between 100 and 2000 N\n",
     alignmentTolerance |-> "Error: Alignment tolerance must be between 0.0001 and 0.01 mm\n"]

\* the positions in CheckOrder of the bounds that params violates
ViolatedBounds(params) ==
    {i \in 1..Len(CheckOrder) :
        \/ params[CheckOrder[i]] < Bounds[CheckOrder[i]].min
        \/ params[CheckOrder[i]] > Bounds[CheckOrder[i]].max}

FirstViolated(params) ==
    CHOOSE i \in ViolatedBounds(params) : \A j \in ViolatedBounds(params) : i <= j

\* simulate or simulateTimeBased has just returned
Simulated == lastOp.name \in {"simulate", "simulateTimeBased"} /\ pc = "returned"

\* C20: when simulate or simulateTimeBased is called with parameters that
\* violate at least one of the five bounds, it returns the message of the
\* first violated bound in the order powerRating, maxSpeed, wheelDiameter,
\* bearingPreload, alignmentTolerance, and it has drawn no random number
\* and left historicalData as it was
C20_FirstViolationOnly ==
    Simulated /\ ViolatedBounds(lastOp.params) # {} =>
        /\ result = ErrorResult(BoundMessage[CheckOrder[FirstViolated(lastOp.params)]])
        /\ rng = rngAtCall
        /\ historicalData = tableAtCall

\* a time-based simulation was refused for its wheel diameter, the bearing
\* preload and the alignment tolerance being out of range too, on an object
\* whose table an earlier simulation has filled
C20_Witness ==
    /\ Simulated
    /\ lastOp.name = "simulateTimeBased"
    /\ ViolatedBounds(lastOp.params) = {3, 4, 5}
    /\ result.kind = "error"
    /\ historicalData # <<>>

\* 1 + the length of the longest chain of individuals of pop in which each
\* dominates the next and the last dominates pop[i]
RECURSIVE ChainRank(_, _)
ChainRank(pop, i) ==
    LET above == {j \in 1..Len(pop) : dominates(pop[j], pop[i])}
        ranks == {ChainRank(pop, j) : j \in above}
    IN  IF above = {} THEN 1
        ELSE 1 + CHOOSE r \in ranks : \A q \in ranks : q <= r

PeeledByChains(pop) ==
    /\ \A i \in 1..Len(pop) : pop[i].rank = ChainRank(pop, i)
    /\ \A i \in 1..Len(pop) :
         pop[i].rank > 1 =>
            \E j \in 1..Len(pop) :
                pop[j].rank = pop[i].rank - 1 /\ dominates(pop[j], pop[i])
    /\ \A i, j \in 1..Len(pop) :
         dominates(pop[i], pop[j]) => pop[i].rank < pop[j].rank

\* C21: after either ranking the rank of an individual is 1 + the length of
\* the longest chain of individuals each dominating the next and the last
\* dominating it; an individual of rank r > 1 is dominated by one of rank
\* r - 1, and a dominating individual has the smaller rank.
C21_RankIsLongestChain ==
    /\ InitiallyRanked => PeeledByChains(population)
    /\ Reranked => PeeledByChains(combined)

\* a re-ranking with a chain of three, where some individual of the rank
\* just above does not dominate the chain's last member
C21_Witness ==
    /\ Reranked
    /\ \E i, j \in 1..Len(combined) :
         /\ combined[i].rank >= 3
         /\ combined[j].rank = combined[i].rank - 1
         /\ ~dominates(combined[j], combined[i])

\* the members of the ranked combined set that no member of it dominates
NonDominatedInCombined ==
    {i \in 1..Len(combined) : NonDominated(combined, i)}

\* C22: after every truncation no discarded member of the combined set
\* dominates a kept one, and when the non-dominated members of the combined
\* set number at most populationSize every one of them is kept.
C22_TruncationKeepsTheBest ==
    Truncated =>
        /\ \A d \in Discarded : \A j \in 1..Len(population) :
             ~dominates(d, population[j])
        /\ Cardinality(NonDominatedInCombined) <= cfg.populationSize =>
             \A i \in NonDominatedInCombined :
                \E j \in 1..Len(population) :
                    population[j].uid = combined[i].uid

\* a truncation whose non-dominated members fit, that dropped an individual
\* dominated by a kept one and kept a dominated individual as well
C22_Witness ==
    /\ Truncated
    /\ Cardinality(NonDominatedInCombined) < cfg.populationSize
    /\ \E d \in Discarded : \E j \in 1..Len(population) :
         dominates(population[j], d)
    /\ \E j \in 1..Len(population) : population[j].rank > 1

(***************************************************************************)
(* evaluateObjectives on its own: individuals drawn from one stream are    *)
(* evaluated one after the other, each with a duration of its own (domIn   *)
(* holds the durations), and the result is ranked by nonDominatedSorting.  *)
(***************************************************************************)
MaxEvalSeed == 7          \* seeds 0 .. MaxEvalSeed of the evaluated stream
MaxEvalLen == 3           \* most individuals evaluated in a row

\* durations of no step (0.05 s, 0.09 s), of one step and of two
EvalDurations == {5, 9, 10, 20}

EvalInit ==
    /\ rng \in 0..MaxEvalSeed
    /\ pc = "evaluate"
    /\ domIn \in UNION {[1..n -> EvalDurations] : n \in 1..MaxEvalLen}
    /\ domOut = <<>>
    /\ cfg = [duration |-> 0, loadFactor |-> 10,
              populationSize |-> Len(domIn), generations |-> 0]
    /\ population = <<>>
    /\ offspring = <<>>
    /\ combined = <<>>
    /\ fronts = <<>>
    /\ gen = 0
    /\ idx = 1
    /\ result = NoResult
    /\ evalCount = 0
    /\ rngAtCall = rng
    /\ genLog = <<>>
    /\ popLog = <<>>
    /\ calls = 0
    /\ prevRun = NoRun
    /\ seed = rng
    /\ historicalData = <<>>
    /\ tableAtCall = <<>>
    /\ lastOp = NoOp

\* parameters from the stream, then evaluateObjectives with the next duration
EvaluateNext ==
    /\ pc = "evaluate"
    /\ LET g == generateRandomParameters(rng)
           e == evaluateObjectives([NewIndividual(idx) EXCEPT !.params = g.params],
                                   domIn[idx], cfg.loadFactor, g.rng)
       IN  /\ population' = Append(population, e.ind)
           /\ rng' = e.rng
    /\ evalCount' = evalCount + 1
    /\ idx' = idx + 1
    /\ pc' = IF idx + 1 > Len(domIn) THEN "sort" ELSE "evaluate"
    /\ UNCHANGED <<cfg, offspring, combined, fronts, gen, result,
                   rngAtCall, genLog, popLog, calls, prevRun, seed, standalone, table>>

EvalNext == EvaluateNext \/ InitialSort

EvalSpec == EvalInit /\ [][EvalNext]_vars

\* population[i] was evaluated on an empty load profile
FailedEvaluation(i) == StepsOf(domIn[i]) = 0

\* C23: the vector a failed evaluation assigns is no better than the vector
\* of any successfully evaluated individual in any objective and worse in at
\* least one, so the latter dominates the former, and once ranked together
\* the failed individual is not of rank 1.
C23_SentinelIsWorst ==
    \A i, j \in 1..Len(population) :
        FailedEvaluation(i) /\ ~FailedEvaluation(j) =>
            /\ population[i].objectives = SentinelObjectives
            /\ \A k \in 1..NumObjectives :
                 population[i].objectives[k] >= population[j].objectives[k]
            /\ \E k \in 1..NumObjectives :
                 population[i].objectives[k] > population[j].objectives[k]
            /\ dominates(population[j], population[i])
            /\ pc = "report" => population[i].rank > 1

\* a failed and a successful evaluation ranked together, the failed one below
C23_Witness ==
    /\ pc = "report"
    /\ \E i, j \in 1..Len(population) :
         /\ FailedEvaluation(i) /\ ~FailedEvaluation(j)
         /\ population[i].rank = 2 /\ population[j].rank = 1

(***************************************************************************)
(* crossover and mutate on their own: two evaluated and ranked parents,    *)
(* a crossover of any two of them (the same one twice included), then the  *)
(* mutation of the child.  offspring[1] is the child as crossover returns  *)
(* it, offspring[2] the child after mutate; domIn holds the two indices.   *)
(***************************************************************************)
MaxVarySeed == 63         \* seeds 0 .. MaxVarySeed of the stream

\* two individuals initialised from the stream seeded s, then sorted
VaryParents(s) ==
    LET g1 == generateRandomParameters(s)
        e1 == evaluateObjectives([NewIndividual(1) EXCEPT !.params = g1.params],
                                 20, 10, g1.rng)
        g2 == generateRandomParameters(e1.rng)
        e2 == evaluateObjectives([NewIndividual(2) EXCEPT !.params = g2.params],
                                 20, 10, g2.rng)
    IN  [population |-> nonDominatedSorting(<<e1.ind, e2.ind>>).population,
         rng |-> e2.rng]

VaryInit ==
    /\ seed \in 0..MaxVarySeed
    /\ population = VaryParents(seed).population
    /\ rng = VaryParents(seed).rng
    /\ pc = "cross"
    /\ cfg = [duration |-> 20, loadFactor |-> 10, populationSize |-> 2, generations |-> 1]
    /\ offspring = <<>>
    /\ combined = <<>>
    /\ fronts = <<>>
    /\ gen = 0
    /\ idx = 0
    /\ result = NoResult
    /\ evalCount = 2
    /\ rngAtCall = seed
    /\ genLog = <<>>
    /\ popLog = <<>>
    /\ calls = 1
    /\ prevRun = NoRun
    /\ domIn = <<>>
    /\ domOut = <<>>
    /\ historicalData = <<>>
    /\ tableAtCall = <<>>
    /\ lastOp = NoOp

\* Individual child = crossover(population[i], population[j])
ApplyCrossover ==
    /\ pc = "cross"
    /\ \E i, j \in 1..Len(population) :
         LET x == crossover(population[i], population[j], rng)
         IN  /\ offspring' = <<x.ind>>
             /\ rng' = x.rng
             /\ rngAtCall' = x.rng
             /\ domIn' = <<i, j>>
    /\ pc' = "mutate"
    /\ UNCHANGED <<cfg, population, combined, fronts, gen, idx, result,
                   evalCount, genLog, popLog, calls, prevRun, seed, domOut, table>>

\* mutate(child)
ApplyMutate ==
    /\ pc = "mutate"
    /\ LET m == mutate(offspring[1], rng)
       IN  /\ offspring' = Append(offspring, m.ind)
           /\ rng' = m.rng
    /\ pc' = "returned"
    /\ UNCHANGED <<cfg, population, combined, fronts, gen, idx, result,
                   history, standalone, table>>

VaryNext == ApplyCrossover \/ ApplyMutate

VarySpec == VaryInit /\ [][VaryNext]_vars

\* the ten fields in the order mutate treats them
MutatedFields ==
    <<"powerRating", "maxSpeed", "wheelDiameter", "bearingPreload", "alignmentTolerance",
      "spindleType", "bearingType", "coolingType", "lubricationType", "toolInterface">>

\* the state of the generator when mutate reaches its k-th field, rngAtCall
\* being the state it was entered with: a field takes one draw to decide and
\* a second one when the first is below mutationProb
RECURSIVE FieldStart(_)
FieldStart(k) ==
    IF k = 1 THEN rngAtCall
    ELSE LET s == FieldStart(k - 1)
         IN  RngAfter(s, IF Uniform(s) * 10 < RngResolution THEN 2 ELSE 1)

Triggered(k) == Uniform(FieldStart(k)) * 10 < RngResolution

Mutated == pc = "returned" /\ Len(offspring) = 2

\* C24: mutate decides each of the ten fields by a draw of its own; a field
\* whose draw is not below mutationProb keeps exactly its value (maxSpeed
\* included), and objectives, rank and crowding distance are left as they were.
C24_MutateFrame ==
    Mutated =>
        /\ \A k \in 1..Len(MutatedFields) :
             ~Triggered(k) =>
                offspring[2].params[MutatedFields[k]] = offspring[1].params[MutatedFields[k]]
        /\ rng = FieldStart(Len(MutatedFields) + 1)
        /\ offspring[2].objectives = offspring[1].objectives
        /\ offspring[2].rank = offspring[1].rank
        /\ offspring[2].crowdingDistance = offspring[1].crowdingDistance

\* a mutation that moved a continuous field and redrew a categorical one to
\* another value while maxSpeed was not triggered
C24_Witness ==
    /\ Mutated
    /\ ~Triggered(2)
    /\ \E k \in {1, 3, 4, 5} :
         /\ Triggered(k)
         /\ offspring[2].params[MutatedFields[k]] # offspring[1].params[MutatedFields[k]]
    /\ \E k \in 6..10 :
         /\ Triggered(k)
         /\ offspring[2].params[MutatedFields[k]] # offspring[1].params[MutatedFields[k]]

\* the offspring loop of a generation is about to start
StartOfVary == pc = "vary" /\ offspring = <<>>

\* C25: at the start of every selection-and-variation step every individual
\* of the population has a rank of at least 1 that is the rank a fresh
\* non-dominated sorting of the population alone assigns, also where the
\* rank was computed on the combined set before the truncation.
C25_RanksAreCurrent ==
    StartOfVary =>
        \A i \in 1..Len(population) :
            /\ population[i].rank >= 1
            /\ population[i].rank = nonDominatedSorting(population).population[i].rank
            /\ population[i].rank = ChainRank(population, i)

\* a generation starts with survivors of a truncation that dropped part of
\* the combined set, a survivor of rank 2 among them
C25_Witness ==
    /\ StartOfVary
    /\ gen >= 1
    /\ Discarded # {}
    /\ \E i \in 1..Len(population) : population[i].rank >= 2
    /\ \E d \in Discarded : \E i \in 1..Len(population) : d.rank = population[i].rank

\* C26: in a call with a valid configuration no defensive failure path is
\* taken: both tournament indices lie inside the population, the combined
\* set is not empty, every index of every front refers to a slot of the
\* combined set, the selection does not leave the population empty, and the
\* call never yields an error result.
C26_NoDefensiveFailure ==
    ValidConfig(cfg) =>
        /\ pc = "vary" =>
             /\ Len(population) = cfg.populationSize
             /\ \A k \in 1..2 : Drawn[k] >= 1 /\ Drawn[k] <= Len(population)
        /\ pc = "rank" => population \o offspring # <<>>
        /\ pc = "truncate" =>
             /\ combined # <<>>
             /\ \A f \in 1..Len(fronts) : \A k \in 1..Len(fronts[f]) :
                  fronts[f][k] >= 1 /\ fronts[f][k] <= Len(combined)
             /\ SelectNextGeneration(combined, fronts, cfg.populationSize) # <<>>
        /\ result.kind # "error"

\* a tournament of a later generation that draws the last slot of the
\* population and the first one
C26_Witness ==
    /\ ValidConfig(cfg)
    /\ pc = "vary" /\ gen >= 1
    /\ Drawn[1] = Len(population)
    /\ Drawn[2] = 1

\* C27: in a call with a valid configuration an evaluation fails exactly when
\* the duration is shorter than one step of the load profile, so either none
\* or every evaluation of the call fails; when every one fails the call still
\* returns a report, of exactly populationSize rows, all of rank 1 and all
\* carrying the sentinel vector.
C27_AllOrNothing ==
    ValidConfig(cfg) =>
        /\ \A ind \in Evaluated :
             ind.objectives = SentinelObjectives <=> StepsOf(cfg.duration) = 0
        /\ \/ \A ind \in Evaluated : ind.objectives = SentinelObjectives
           \/ \A ind \in Evaluated : ind.objectives # SentinelObjectives
        /\ EvaluationFails /\ pc = "returned" =>
             /\ result.kind = "report"
             /\ Len(result.rows) = cfg.populationSize
             /\ result.paretoCount = cfg.populationSize
             /\ Len(population) = cfg.populationSize
             /\ \A k \in 1..Len(result.rows) :
                  /\ result.rows[k].rank = 1
                  /\ result.rows[k].objectives = SentinelObjectives

\* a call of two generations on a duration of 0.05 s that reported all of
\* its populationSize individuals, offspring among them
C27_Witness ==
    /\ Reported /\ ValidConfig(cfg) /\ EvaluationFails
    /\ cfg.generations = MaxGenerations
    /\ Len(result.rows) = cfg.populationSize
    /\ \A k \in 1..Len(result.rows) : result.rows[k].rank = 1
    /\ \E k \in 1..Len(result.rows) : result.rows[k].uid > cfg.populationSize

\* C28: the stored crowding distance of an individual never decreases while
\* it stays in the population: after a re-ranking every parent carries a
\* distance no smaller than the one it entered with, a parent that entered
\* with +infinity still has +infinity, and the truncation hands the survivors
\* on with the distances the re-ranking left.
C28_DistanceNeverDecreases ==
    /\ Reranked =>
         \A i \in 1..Len(population) :
            /\ combined[i].uid = population[i].uid
            /\ combined[i].crowdingDistance >= population[i].crowdingDistance
            /\ population[i].crowdingDistance >= Infinity =>
                 combined[i].crowdingDistance >= Infinity
    /\ Truncated =>
         \A j \in 1..Len(population) : \E i \in 1..Len(combined) :
            /\ combined[i].uid = population[j].uid
            /\ pc = "vary" =>
                 combined[i].crowdingDistance = population[j].crowdingDistance
    /\ \A ind \in Held : ind.crowdingDistance >= 0

\* a later re-ranking in which a survivor's finite distance grew to a larger
\* finite one, another survivor went from a finite distance to +infinity and
\* a third kept the +infinity it came with
C28_Witness ==
    /\ Reranked /\ gen >= 1
    /\ \E i, j, k \in 1..Len(population) :
         /\ population[i].crowdingDistance > 0
         /\ combined[i].crowdingDistance > population[i].crowdingDistance
         /\ combined[i].crowdingDistance < Infinity
         /\ population[j].crowdingDistance < Infinity
         /\ combined[j].crowdingDistance = Infinity
         /\ population[k].crowdingDistance = Infinity
         /\ combined[k].crowdingDistance = Infinity

\* the child crossover returns for the two individuals the coming pass draws
DrawnChild ==
    LET parent1 == population[Drawn[1]]
        parent2 == population[Drawn[2]]
    IN  IF Precedes(parent1, parent2)
        THEN crossover(parent1, parent2, RngAfter(rng, 2)).ind
        ELSE crossover(parent2, parent1, RngAfter(rng, 2)).ind

\* C29: the two tournament draws may name the same individual, and then the
\* child crossover returns has that individual's ten parameters unchanged;
\* whatever the parents are, the child starts with rank 0 and crowding
\* distance 0, and the offspring keep both until they are ranked.
C29_SelfCrossover ==
    /\ pc = "vary" /\ ValidConfig(cfg) =>
         /\ DrawnChild.rank = 0
         /\ DrawnChild.crowdingDistance = 0
         /\ Drawn[1] = Drawn[2] => DrawnChild.params = population[Drawn[1]].params
    /\ \A k \in 1..Len(offspring) :
         offspring[k].rank = 0 /\ offspring[k].crowdingDistance = 0

\* a tournament that draws the same individual twice, one of rank 2 with a
\* crowding distance that is not 0, in a pass that has made offspring already
C29_Witness ==
    /\ pc = "vary" /\ ValidConfig(cfg)
    /\ Drawn[1] = Drawn[2]
    /\ population[Drawn[1]].rank >= 2
    /\ population[Drawn[1]].crowdingDistance > 0
    /\ offspring # <<>>
    /\ DrawnChild.params = population[Drawn[1]].params

\* C30: the ranking inlined in the generational loop and nonDominatedSorting
\* are equivalent: applied to the same population, stored crowding distances
\* included, they build the same fronts and leave every individual with the
\* same rank and the same crowding distance.
C30_RankingsAgree ==
    Reranked =>
        LET s == nonDominatedSorting(population \o offspring)
        IN  /\ fronts = s.fronts
            /\ Len(combined) = Len(s.population)
            /\ \A i \in 1..Len(combined) :
                 /\ combined[i].rank = s.population[i].rank
                 /\ combined[i].crowdingDistance = s.population[i].crowdingDistance
                 /\ combined[i] = s.population[i]

\* a re-ranking of parents that came with stored distances, finite and not 0
\* among them, which built a front of more than two and one of at most two
C30_Witness ==
    /\ Reranked
    /\ \E i \in 1..Len(population) :
         /\ population[i].crowdingDistance > 0
         /\ population[i].crowdingDistance < Infinity
         /\ combined[i].crowdingDistance > population[i].crowdingDistance
         /\ combined[i].crowdingDistance < Infinity
    /\ \E f, g \in 1..Len(fronts) : Len(fronts[f]) > 2 /\ Len(fronts[g]) <= 2
=============================================================================
